---- MODULE Spec2Model ----
(***************************************************************************)
(* A model of rospeek-core: the CDR decoder (cdr.rs), the schema model     *)
(* (schema.rs), the parallel batch decode (try_decode_json) and the        *)
(* tabular flattening (try_decode_csv).                                    *)
(*                                                                         *)
(* Representation.  A byte is an integer 0..255 and a buffer a sequence of *)
(* bytes.  TLC's integers are 32-bit, so a decoded number is held as the   *)
(* big-endian tuple of its bytes (u32::from_le_bytes(buf) is the integer   *)
(* whose little-endian bytes are buf, that is, whose big-endian bytes are  *)
(* buf reversed); a text is held as the tuple of its UTF-8 bytes.          *)
(***************************************************************************)
EXTENDS Integers, Sequences, FiniteSets, TLC

VARIABLES
    decoder,    \* the CdrDecoder object: [data, pos, endianness, cache, reads], or NoDecoder
    result,     \* what the last call on the decoder returned
    lastOp,     \* the last call: [op, data, schema, via], data the payload the decoder is on
    rt,         \* the round trip under way: the logical value and its encoded buffer
    batch,      \* the try_decode_json call under way: its chunks, shared flags and outcome
    csv,        \* the try_decode_csv call: its input and what it returned
    world,      \* the process environment and the file system: [env, fs]
    schemaOp,   \* the last call on the schema module and what it returned
    bagOp,      \* the last call on a bag reader: the container, the request, the result
    nest,       \* a decode followed call by call: its frames, cursor and outcome
    gui         \* the viewer: its fields, its channels and its worker threads

decVars == <<decoder, result, lastOp>>

vars == <<decoder, result, lastOp, rt, batch, csv, world, schemaOp, bagOp, nest, gui>>

\* ------------------------------------------------------------------------
\* Results (RosPeekResult) and small helpers
\* ------------------------------------------------------------------------

Ok(v) == [tag |-> "Ok", val |-> v]

Err(e) == [tag |-> "Err", val |-> e]

\* A panic unwinding out of the call (slice index out of range).
Panic(e) == [tag |-> "Panic", val |-> e]

IsOk(r) == r.tag = "Ok"

\* A decoder method's outcome: the decoder after the call and the returned value.
Ret(d, r) == [dec |-> d, res |-> r]

Reverse(s) == [i \in 1..Len(s) |-> s[Len(s) + 1 - i]]

\* F of the value of v (v is evaluated once).
Bind(v, F(_)) == CHOOSE y \in { F(r) : r \in {v} } : TRUE

\* ------------------------------------------------------------------------
\* Schema model (schema.rs)
\* ------------------------------------------------------------------------

Object(n) == [kind |-> "Object", type_name |-> n, len |-> 0]

Sequence(n) == [kind |-> "Sequence", type_name |-> n, len |-> 0]

Array(n, k) == [kind |-> "Array", type_name |-> n, len |-> k]

MessageField(name, ft) == [name |-> name, field_type |-> ft]

MessageSchema(tn, fields) == [type_name |-> tn, fields |-> fields]

type_name(field) == field.field_type.type_name

is_iterable(field) == field.field_type.kind # "Object"

\* The schemas of the installed definition files (Installed below): type name
\* to field list.  A name outside this store has no definition file.
IdlStore ==
    [n \in {"pkg/msg/Inner", "pkg/msg/Outer"} |->
        IF n = "pkg/msg/Inner"
        THEN << MessageField("x", Object("boolean")), MessageField("y", Object("uint16")) >>
        ELSE << MessageField("inner", Object("pkg/msg/Inner")),
                MessageField("tail", Object("uint8")) >>]

\* ------------------------------------------------------------------------
\* JSON values (serde_json::Value)
\* ------------------------------------------------------------------------

JNull == [k |-> "null", v |-> <<>>]

JBool(b) == [k |-> "bool", v |-> <<b>>]

\* A number: its Rust type before json!() and its big-endian bytes.
JNum(ty, be) == [k |-> ty, v |-> be]

JStr(bytes) == [k |-> "str", v |-> bytes]

JArr(items) == [k |-> "arr", v |-> items]

JObj(map) == [k |-> "obj", v |-> map]

\* serde_json::Map::new() and Map::insert: keyed by name, a repeated key replaces.
EmptyMap == [n \in {} |-> JNull]

MapInsert(map, name, val) == (name :> val) @@ map

\* json!(f32): Number::from_f32 is None for NaN and the infinities (exponent
\* bits all ones), and json! then yields Value::Null.
json_f32(be) ==
    IF (be[1] % 128) * 2 + (be[2] \div 128) = 255 THEN JNull ELSE JNum("f32", be)

\* json!(f64): as json_f32, with the 11 exponent bits of a double.
json_f64(be) ==
    IF (be[1] % 128) * 16 + (be[2] \div 16) = 2047 THEN JNull ELSE JNum("f64", be)

\* json!(code as char): the one-character text with code point `code`
\* (U+0000..U+00FF), as its UTF-8 bytes.
json_char(code) ==
    JStr(IF code < 128 THEN <<code>> ELSE <<192 + (code \div 64), 128 + (code % 64)>>)

\* ------------------------------------------------------------------------
\* The decoder (cdr.rs)
\* ------------------------------------------------------------------------

NoDecoder == [none |-> TRUE]

\* Mutant of to_endianness: the byte at offset 0 is inspected instead of offset 1.
to_endianness_offset0(data) ==
    LET b == IF Len(data) >= 1 THEN data[1] ELSE 1
    IN  IF b = 0 THEN "Big" ELSE "Little"

to_endianness(data) ==
    LET b == IF Len(data) >= 2 THEN data[2] ELSE 1
    IN  IF b = 0 THEN "Big" ELSE "Little"

HeaderLen == 4

\* No call of the resolver has returned a schema to this decoder.
NoneResolved == [n \in {} |-> 0]

\* &data[4..]: the bytes after the header; panics when data is shorter.
body_of(data) == SubSeq(data, HeaderLen + 1, Len(data))

new(data) ==
    IF Len(data) < HeaderLen
    THEN Ret(NoDecoder, Panic("slice index out of range"))
    ELSE Ret([data |-> body_of(data), pos |-> 0, endianness |-> to_endianness(data),
              cache |-> EmptyMap, reads |-> <<>>, lookups |-> <<>>,
              resolved |-> NoneResolved], Ok(<<>>))

from_schema(schema) ==
    [data |-> <<>>, pos |-> 0, endianness |-> "Little",
     cache |-> MapInsert(EmptyMap, schema.type_name, schema), reads |-> <<>>,
     lookups |-> <<>>, resolved |-> NoneResolved]

\* Mutant of reset: the decoder is made anew for the payload, its cache empty.
reset_fresh(dec, data) ==
    IF Len(data) < HeaderLen
    THEN Ret([dec EXCEPT !.endianness = to_endianness(data)],
             Panic("slice index out of range"))
    ELSE Ret([dec EXCEPT !.endianness = to_endianness(data),
                         !.data = body_of(data), !.pos = 0, !.reads = <<>>,
                         !.lookups = <<>>, !.cache = EmptyMap], Ok(<<>>))

\* Mutant of reset: the cursor stays where the last decode left it.
reset_keeps_cursor(dec, data) ==
    IF Len(data) < HeaderLen
    THEN Ret([dec EXCEPT !.endianness = to_endianness(data)],
             Panic("slice index out of range"))
    ELSE Ret([dec EXCEPT !.endianness = to_endianness(data),
                         !.data = body_of(data), !.reads = <<>>,
                         !.lookups = <<>>], Ok(<<>>))

reset(dec, data) ==
    IF Len(data) < HeaderLen
    THEN Ret([dec EXCEPT !.endianness = to_endianness(data)],
             Panic("slice index out of range"))
    ELSE Ret([dec EXCEPT !.endianness = to_endianness(data),
                         !.data = body_of(data), !.pos = 0, !.reads = <<>>,
                         !.lookups = <<>>], Ok(<<>>))

\* Cursor::read_exact: n bytes from the cursor, which then stands after them;
\* with fewer than n bytes left it fails and the cursor stands at the end.
read_exact(dec, n) ==
    IF dec.pos + n <= Len(dec.data)
    THEN Ret([dec EXCEPT !.pos = dec.pos + n],
             Ok(SubSeq(dec.data, dec.pos + 1, dec.pos + n)))
    ELSE Ret([dec EXCEPT !.pos = Len(dec.data)], Err("UnexpectedEof"))

\* The `?` operator: v's failure returned at once, otherwise F of v.  (v is
\* evaluated once and F gets its value.)
Try(v, F(_)) == CHOOSE y \in { IF IsOk(r.res) THEN F(r) ELSE r : r \in {v} } : TRUE

\* Mutant of align_to: the outer `% align` is missing, so an aligned cursor
\* skips a whole unit.
align_to_full(dec, align) ==
    LET padding == align - (dec.pos % align)
    IN  Try(read_exact(dec, padding), LAMBDA r : Ret(r.dec, Ok(<<>>)))

\* Mutant of align_to: no padding is skipped.
align_to_none(dec, align) == Ret(dec, Ok(<<>>))

align_to(dec, align) ==
    LET pos == dec.pos
        padding == (align - (pos % align)) % align
    IN  IF padding > 0
        THEN Try(read_exact(dec, padding), LAMBDA r : Ret(r.dec, Ok(<<>>)))
        ELSE Ret(dec, Ok(<<>>))

decode_bytes(dec, N) == read_exact(dec, N)

\* The record of one completed primitive read, kept for the properties: the
\* cursor before the padding, at the first byte read and after the last, and
\* the value returned (big-endian bytes).
ReadEvent(size, before, start, after, val) ==
    [size |-> size, before |-> before, start |-> start, after |-> after, val |-> val]

Logged(dec, size, before, start, val) ==
    [dec EXCEPT !.reads = Append(@, ReadEvent(size, before, start, dec.pos, val))]

\* Mutant of from_bytes: from_be_bytes whatever the detected endianness.
from_bytes_be(dec, buf) == buf

\* from_be_bytes / from_le_bytes by the decoder's endianness, as big-endian bytes.
from_bytes(dec, buf) == IF dec.endianness = "Big" THEN buf ELSE Reverse(buf)

\* The shared body of decode_u16 .. decode_f64: align_to(N)?, decode_bytes::<N>()?,
\* then the bytes read in the detected byte order.
decode_aligned(dec, N) ==
    Try(align_to(dec, N), LAMBDA a :
    Try(decode_bytes(a.dec, N), LAMBDA r :
        Ret(Logged(r.dec, N, dec.pos, a.dec.pos, from_bytes(r.dec, r.res.val)),
            Ok(from_bytes(r.dec, r.res.val)))))

decode_u8(dec) ==
    Try(read_exact(dec, 1), LAMBDA r :
        Ret(Logged(r.dec, 1, dec.pos, dec.pos, r.res.val), Ok(r.res.val[1])))

decode_bool(dec) == Try(decode_u8(dec), LAMBDA r : Ret(r.dec, Ok(r.res.val # 0)))

decode_i8(dec) == decode_u8(dec)

decode_char(dec) == decode_u8(dec)

decode_u16(dec) == decode_aligned(dec, 2)

decode_i16(dec) == decode_aligned(dec, 2)

decode_u32(dec) == decode_aligned(dec, 4)

decode_i32(dec) == decode_aligned(dec, 4)

decode_u64(dec) == decode_aligned(dec, 8)

decode_i64(dec) == decode_aligned(dec, 8)

decode_f32(dec) == decode_aligned(dec, 4)

decode_f64(dec) == decode_aligned(dec, 8)

\* Lengths at or above this are held as this value: every buffer of the model
\* is shorter, so a read of that many bytes or items fails all the same.
LenCap == 65536

RECURSIVE sat_int(_, _, _)
sat_int(be, i, acc) ==
    IF i > Len(be) THEN acc
    ELSE sat_int(be, i + 1, IF acc >= LenCap THEN LenCap ELSE acc * 256 + be[i])

\* `as usize` of a decoded u32.
as_usize(be) == sat_int(be, 1, 0)

\* String::from_utf8's check: the bytes from index i on are well-formed UTF-8.
RECURSIVE utf8_valid(_, _)
utf8_valid(s, i) ==
    IF i > Len(s) THEN TRUE
    ELSE LET b == s[i]
             rng(j, lo, hi) == j <= Len(s) /\ s[j] >= lo /\ s[j] <= hi
             cont(j) == rng(j, 128, 191)
         IN  CASE b < 128 -> utf8_valid(s, i + 1)
               [] b >= 194 /\ b <= 223 -> cont(i + 1) /\ utf8_valid(s, i + 2)
               [] b = 224 -> rng(i + 1, 160, 191) /\ cont(i + 2) /\ utf8_valid(s, i + 3)
               [] (b >= 225 /\ b <= 236) \/ b = 238 \/ b = 239 ->
                      cont(i + 1) /\ cont(i + 2) /\ utf8_valid(s, i + 3)
               [] b = 237 -> rng(i + 1, 128, 159) /\ cont(i + 2) /\ utf8_valid(s, i + 3)
               [] b = 240 ->
                      rng(i + 1, 144, 191) /\ cont(i + 2) /\ cont(i + 3)
                      /\ utf8_valid(s, i + 4)
               [] b >= 241 /\ b <= 243 ->
                      cont(i + 1) /\ cont(i + 2) /\ cont(i + 3) /\ utf8_valid(s, i + 4)
               [] b = 244 ->
                      rng(i + 1, 128, 143) /\ cont(i + 2) /\ cont(i + 3)
                      /\ utf8_valid(s, i + 4)
               [] OTHER -> FALSE

\* Mutant of pop_nul: every trailing NUL is removed.
RECURSIVE pop_all_nul(_)
pop_all_nul(buf) ==
    IF Len(buf) > 0 /\ buf[Len(buf)] = 0 THEN pop_all_nul(SubSeq(buf, 1, Len(buf) - 1))
    ELSE buf

\* buf.last() == Some(&0) => buf.pop()
pop_nul(buf) ==
    IF Len(buf) > 0 /\ buf[Len(buf)] = 0 THEN SubSeq(buf, 1, Len(buf) - 1) ELSE buf

\* String::from_utf8(buf).map_err(RosPeekError::InvalidUtf8)
from_utf8(buf) == IF utf8_valid(buf, 1) THEN Ok(buf) ELSE Err("InvalidUtf8")

decode_string(dec) ==
    Try(decode_u32(dec), LAMBDA l :
    Try(read_exact(l.dec, as_usize(l.res.val)), LAMBDA r :
        Ret(r.dec, from_utf8(pop_nul(r.res.val)))))

\* ------------------------------------------------------------------------
\* Strings (str / String methods used by schema.rs).  Indices are 1-based;
\* a search that finds nothing gives 0.
\* ------------------------------------------------------------------------

\* The character of s at index i, as a one-character string.
Ch(s, i) == SubSeq(s, i, i)

\* char::is_whitespace, over the characters the model's texts use.
Whitespace == { " ", "\t", "\n", "\r" }

IsDigit(c) == c \in { "0", "1", "2", "3", "4", "5", "6", "7", "8", "9" }

MinOf(S) == CHOOSE m \in S : \A n \in S : m <= n

MaxOf(S) == CHOOSE m \in S : \A n \in S : m >= n

starts_with(s, pat) == Len(s) >= Len(pat) /\ SubSeq(s, 1, Len(pat)) = pat

ends_with(s, pat) == Len(s) >= Len(pat) /\ SubSeq(s, Len(s) - Len(pat) + 1, Len(s)) = pat

\* str::find from index i on: where pat first occurs.
find_from(s, pat, i) ==
    Bind({ k \in i..(Len(s) - Len(pat) + 1) : SubSeq(s, k, k + Len(pat) - 1) = pat },
         LAMBDA hits : IF hits = {} THEN 0 ELSE MinOf(hits))

\* The first index from i on whose character is outside set.
first_outside(s, set, i) ==
    Bind({ k \in i..Len(s) : Ch(s, k) \notin set },
         LAMBDA hits : IF hits = {} THEN 0 ELSE MinOf(hits))

\* The last index whose character is outside set.
last_outside(s, set) ==
    Bind({ k \in 1..Len(s) : Ch(s, k) \notin set },
         LAMBDA hits : IF hits = {} THEN 0 ELSE MaxOf(hits))

\* str::split(ch) from index start on.
RECURSIVE split_from(_, _, _)
split_from(s, ch, start) ==
    Bind(find_from(s, ch, start), LAMBDA at :
         IF at = 0 THEN << SubSeq(s, start, Len(s)) >>
         ELSE << SubSeq(s, start, at - 1) >> \o split_from(s, ch, at + 1))

\* str::split(ch): the pieces between the occurrences of ch, empty ones kept.
split(s, ch) == split_from(s, ch, 1)

\* str::trim: leading and trailing whitespace removed.
trim(s) ==
    Bind(first_outside(s, Whitespace, 1), LAMBDA first :
         IF first = 0 THEN "" ELSE SubSeq(s, first, last_outside(s, Whitespace)))

\* str::trim_end_matches(ch): every trailing ch removed.
trim_end_matches(s, ch) == SubSeq(s, 1, last_outside(s, {ch}))

\* str::split_whitespace from index i on.
RECURSIVE split_whitespace_from(_, _)
split_whitespace_from(s, i) ==
    Bind(first_outside(s, Whitespace, i), LAMBDA start :
         IF start = 0 THEN << >>
         ELSE Bind({ k \in start..Len(s) : Ch(s, k) \in Whitespace }, LAMBDA gaps :
              IF gaps = {} THEN << SubSeq(s, start, Len(s)) >>
              ELSE << SubSeq(s, start, MinOf(gaps) - 1) >>
                   \o split_whitespace_from(s, MinOf(gaps) + 1)))

\* str::split_whitespace: the maximal runs of non-whitespace characters.
split_whitespace(s) == split_whitespace_from(s, 1)

\* str::replace(from, to) from index i on: matches taken left to right,
\* never overlapping.
RECURSIVE replace_from(_, _, _, _)
replace_from(s, from, to, i) ==
    Bind(find_from(s, from, i), LAMBDA at :
         IF at = 0 THEN SubSeq(s, i, Len(s))
         ELSE SubSeq(s, i, at - 1) \o to \o replace_from(s, from, to, at + Len(from)))

replace(s, from, to) == replace_from(s, from, to, 1)

\* str::lines: the pieces between line feeds, a final empty piece dropped and
\* one trailing carriage return removed from each line.
lines(s) ==
    Bind(split(s, "\n"), LAMBDA pieces :
    Bind(IF pieces[Len(pieces)] = "" THEN SubSeq(pieces, 1, Len(pieces) - 1) ELSE pieces,
         LAMBDA kept :
             [i \in 1..Len(kept) |->
                 IF ends_with(kept[i], "\r") THEN SubSeq(kept[i], 1, Len(kept[i]) - 1)
                 ELSE kept[i]]))

\* ------------------------------------------------------------------------
\* Schema resolution (schema.rs): the search for a definition file and its
\* parsing.  The process environment and the file system a call runs in are
\* the argument w (the variable world in a behaviour): env maps the names of
\* the set variables to their values, fs maps the paths that exist to a
\* file's text or to a directory.
\* ------------------------------------------------------------------------

Some(v) == [tag |-> "Some", val |-> v]

None == [tag |-> "None", val |-> << >>]

\* Result::and_then / the ? operator on a plain result.
and_then(r, F(_)) == CHOOSE y \in { IF IsOk(x) THEN F(x.val) ELSE x : x \in {r} } : TRUE

File(text) == [kind |-> "file", text |-> text]

Directory == [kind |-> "dir", text |-> ""]

Environment(env, fs) == [env |-> env, fs |-> fs]

\* std::env::var.
env_var(w, name) ==
    IF name \in DOMAIN w.env THEN Ok(w.env[name]) ELSE Err("NotPresent")

\* Path::exists.
exists(w, path) == path \in DOMAIN w.fs

\* PathBuf::join: an absolute component replaces the path, otherwise it is
\* appended after a separator.
join(base, component) ==
    IF starts_with(component, "/") \/ base = "" THEN component
    ELSE IF ends_with(base, "/") THEN base \o component
    ELSE base \o "/" \o component

\* std::fs::read_to_string: the text of a regular file; a directory or a
\* missing path is an I/O error.
read_to_string(w, path) ==
    IF exists(w, path) /\ w.fs[path].kind = "file"
    THEN Ok(w.fs[path].text)
    ELSE Err("Io")

\* The characters of a shell variable name.
NameChars ==
    { "A", "B", "C", "D", "E", "F", "G", "H", "I", "J", "K", "L", "M",
      "N", "O", "P", "Q", "R", "S", "T", "U", "V", "W", "X", "Y", "Z",
      "a", "b", "c", "d", "e", "f", "g", "h", "i", "j", "k", "l", "m",
      "n", "o", "p", "q", "r", "s", "t", "u", "v", "w", "x", "y", "z",
      "0", "1", "2", "3", "4", "5", "6", "7", "8", "9", "_" }

\* The index just after the run of name characters that starts at i.
name_end(s, i) ==
    Bind(first_outside(s, NameChars, i), LAMBDA e : IF e = 0 THEN Len(s) + 1 ELSE e)

\* The first index from i on of a $ that a variable name follows.
RECURSIVE next_variable(_, _)
next_variable(s, i) ==
    Bind(find_from(s, "$", i), LAMBDA at :
         IF at = 0 \/ name_end(s, at + 1) > at + 1 THEN at
         ELSE next_variable(s, at + 1))

\* shellexpand::full from index i on, for a text that does not start with a
\* tilde: $NAME is replaced by the variable's value, a $ that no name follows
\* stays, and a variable that is not set is an error.
RECURSIVE full_from(_, _, _)
full_from(w, s, i) ==
    Bind(next_variable(s, i), LAMBDA at :
         IF at = 0 THEN Ok(SubSeq(s, i, Len(s)))
         ELSE Bind(name_end(s, at + 1), LAMBDA e :
              and_then(env_var(w, SubSeq(s, at + 1, e - 1)), LAMBDA value :
              and_then(full_from(w, s, e), LAMBDA rest :
                  Ok(SubSeq(s, i, at - 1) \o value \o rest)))))

shellexpand_full(w, s) == full_from(w, s, 1)

\* read_to_filepath: the path with its shell variables expanded.
read_to_filepath(w, path) ==
    Bind(shellexpand_full(w, path), LAMBDA expanded :
         IF IsOk(expanded) THEN expanded ELSE Err("Other"))

DigitValue(c) ==
    CASE c = "0" -> 0 [] c = "1" -> 1 [] c = "2" -> 2 [] c = "3" -> 3 [] c = "4" -> 4
      [] c = "5" -> 5 [] c = "6" -> 6 [] c = "7" -> 7 [] c = "8" -> 8 [] c = "9" -> 9

\* a > b for two numerals of the same length, compared from index i on.
RECURSIVE numeral_greater(_, _, _)
numeral_greater(a, b, i) ==
    IF i > Len(a) THEN FALSE
    ELSE IF Ch(a, i) = Ch(b, i) THEN numeral_greater(a, b, i + 1)
    ELSE DigitValue(Ch(a, i)) > DigitValue(Ch(b, i))

\* usize::MAX of a 64-bit target, as a numeral.
UsizeMax == "18446744073709551615"

\* The value of a numeral, held as LenCap from LenCap on.
RECURSIVE numeral_value(_, _, _)
numeral_value(s, i, acc) ==
    IF i > Len(s) THEN acc
    ELSE numeral_value(s, i + 1,
                       IF acc >= LenCap THEN LenCap
                       ELSE IF acc * 10 + DigitValue(Ch(s, i)) >= LenCap THEN LenCap
                       ELSE acc * 10 + DigitValue(Ch(s, i)))

\* str::parse::<usize> of a run of digits (leading zeros allowed): its value,
\* or an error when the value does not fit in 64 bits.
parse_usize(s) ==
    Bind(IF first_outside(s, {"0"}, 1) = 0 THEN ""
         ELSE SubSeq(s, first_outside(s, {"0"}, 1), Len(s)), LAMBDA n :
         IF Len(n) > Len(UsizeMax) \/ (Len(n) = Len(UsizeMax) /\ numeral_greater(n, UsizeMax, 1))
         THEN Err("PosOverflow")
         ELSE Ok(numeral_value(n, 1, 0)))

\* The index where the run of digits that ends s begins (Len(s) + 1: none).
digits_start(s) == last_outside(s, { "0", "1", "2", "3", "4", "5", "6", "7", "8", "9" }) + 1

\* Regex ^(?P<type>.+)__(?P<num>\d+)$ : s ends in a run of digits that two
\* underscores precede, and at least one character (none a line feed) comes
\* before them.  The underscore is no digit, so the split is unique.
captures(s) ==
    Bind(digits_start(s), LAMBDA d :
         IF d <= Len(s) /\ d >= 4 /\ SubSeq(s, d - 2, d - 1) = "__"
            /\ find_from(s, "\n", 1) = 0
         THEN Some([type |-> SubSeq(s, 1, d - 3), num |-> SubSeq(s, d, Len(s))])
         ELSE None)

\* unwrap_or(0).
unwrap_or(r, default) == IF IsOk(r) THEN r.val ELSE default

to_field_type(s) ==
    Bind(captures(s), LAMBDA capture :
         IF capture.tag = "Some"
         THEN Array(replace(capture.val.type, "::", "/"),
                    unwrap_or(parse_usize(capture.val.num), 0))
         ELSE IF starts_with(s, "sequence<") /\ ends_with(s, ">")
         THEN Sequence(replace(SubSeq(s, Len("sequence<") + 1, Len(s) - 1), "::", "/"))
         ELSE Object(replace(s, "::", "/")))

\* The candidate of the first search directory, from the i-th on, that exists.
RECURSIVE first_existing(_, _, _, _, _, _)
first_existing(w, bases, package, msg_or_srv, msg_name, i) ==
    IF i > Len(bases) THEN None
    ELSE Bind(join(join(join(join(bases[i], "share"), package), msg_or_srv),
                   msg_name \o ".idl"),
              LAMBDA candidate :
                  IF exists(w, candidate) THEN Some(candidate)
                  ELSE first_existing(w, bases, package, msg_or_srv, msg_name, i + 1))

\* A search that takes the candidate of the last search directory that
\* exists: what the search-path order rules out.
find_ros_idl_path_last(w, name) ==
    Bind(split(name, "/"), LAMBDA type_name_parts :
         IF Len(type_name_parts) < 3 THEN None
         ELSE IF type_name_parts[2] # "msg" THEN None
         ELSE IF ~IsOk(env_var(w, "AMENT_PREFIX_PATH")) THEN None
         ELSE Bind(Reverse(split(env_var(w, "AMENT_PREFIX_PATH").val, ":")), LAMBDA ament_paths :
              first_existing(w, ament_paths, type_name_parts[1], type_name_parts[2],
                             type_name_parts[3], 1)))

find_ros_idl_path(w, name) ==
    Bind(split(name, "/"), LAMBDA type_name_parts :
         IF Len(type_name_parts) < 3 THEN None
         ELSE IF type_name_parts[2] # "msg" THEN None
         ELSE IF ~IsOk(env_var(w, "AMENT_PREFIX_PATH")) THEN None
         ELSE Bind(split(env_var(w, "AMENT_PREFIX_PATH").val, ":"), LAMBDA ament_paths :
              first_existing(w, ament_paths, type_name_parts[1], type_name_parts[2],
                             type_name_parts[3], 1)))

\* A parser that takes the first two tokens of any statement of two or more:
\* what the two-token rule rules out.
RECURSIVE parse_lines_first_two(_, _)
parse_lines_first_two(ls, i) ==
    IF i > Len(ls) THEN << >>
    ELSE Bind(trim(ls[i]), LAMBDA line :
         IF line = "" \/ ~ends_with(line, ";") THEN parse_lines_first_two(ls, i + 1)
         ELSE Bind(split_whitespace(trim_end_matches(line, ";")), LAMBDA tokens :
              IF Len(tokens) < 2 THEN parse_lines_first_two(ls, i + 1)
              ELSE << MessageField(tokens[2], to_field_type(tokens[1])) >>
                   \o parse_lines_first_two(ls, i + 1)))

\* The fields of the lines from the i-th on.
RECURSIVE parse_lines(_, _)
parse_lines(ls, i) ==
    IF i > Len(ls) THEN << >>
    ELSE Bind(trim(ls[i]), LAMBDA line :
         IF line = "" \/ ~ends_with(line, ";") THEN parse_lines(ls, i + 1)
         ELSE Bind(split_whitespace(trim_end_matches(line, ";")), LAMBDA tokens :
              IF Len(tokens) # 2 THEN parse_lines(ls, i + 1)
              ELSE << MessageField(tokens[2], to_field_type(tokens[1])) >>
                   \o parse_lines(ls, i + 1)))

parse_idl_to_schema(w, idl, name) ==
    and_then(read_to_filepath(w, idl), LAMBDA idl_path :
    and_then(read_to_string(w, idl_path), LAMBDA idl_str :
    Bind(lines(idl_str), LAMBDA ls :
         Ok(MessageSchema(name, parse_lines(ls, 1))))))

\* MessageSchema::try_from in the environment w: the schema parsed from the
\* located file.
try_from_in(w, name) ==
    Bind(find_ros_idl_path(w, name), LAMBDA idl :
         IF idl.tag = "None" THEN Err("IdlNotFound")
         ELSE parse_idl_to_schema(w, idl.val, name))

\* The installation the decoder's runs are made in: one search directory
\* holding the definitions of pkg/msg/Inner and pkg/msg/Outer, and a
\* definition file for the time-point type that differs from the built-in
\* representation.
Installed ==
    Environment([v \in {"AMENT_PREFIX_PATH"} |-> "/ros"],
          [p \in { "/ros/share/pkg/msg/Inner.idl", "/ros/share/pkg/msg/Outer.idl",
                   "/ros/share/builtin_interfaces/msg/Time.idl" } |->
              CASE p = "/ros/share/pkg/msg/Inner.idl" ->
                       File("struct Inner {\n  boolean x;\n  uint16 y;\n};\n")
                [] p = "/ros/share/pkg/msg/Outer.idl" ->
                       File("struct Outer {\n  pkg::msg::Inner inner;\n  uint8 tail;\n};\n")
                [] OTHER -> File("struct Time {\n  uint8 sec;\n};\n")])

\* What try_from returns in the installed environment for the type names
\* the decoder's runs resolve (evaluated once).
InstalledSchemas ==
    [n \in { "pkg/msg/Inner", "pkg/msg/Outer", "pkg/msg/Missing" } |-> try_from_in(Installed, n)]

\* MessageSchema::try_from, in the environment of the current state.
try_from(name) ==
    IF world = Installed /\ name \in DOMAIN InstalledSchemas
    THEN InstalledSchemas[name]
    ELSE try_from_in(world, name)

\* The record of one call of the resolver, kept for the properties: the name
\* asked for, whether a schema came back, and how many reads the decode had
\* completed when the call was made.
LookupEvent(name, found, reads) == [name |-> name, found |-> found, reads |-> reads]

\* The calls of the resolver since the decoder was put on its buffer
\* (lookups), and how often each name was resolved to a schema since the
\* decoder was made (resolved).
Looked(dec, name, r) ==
    [dec EXCEPT !.lookups = Append(@, LookupEvent(name, IsOk(r), Len(dec.reads))),
                !.resolved = IF IsOk(r)
                             THEN (name :> (IF name \in DOMAIN @ THEN @[name] + 1 ELSE 1)) @@ @
                             ELSE @]

\* Mutant of get_schema: the cache is not consulted, every lookup resolves anew.
get_schema_uncached(dec, name) ==
    Try(CHOOSE y \in { Ret(Looked(dec, name, r), r) : r \in {try_from(name)} } : TRUE,
        LAMBDA s : Ret([s.dec EXCEPT !.cache = MapInsert(@, name, s.res.val)],
                       Ok(s.res.val)))

\* Mutant of get_schema: a name that does not resolve gets a schema without
\* fields instead of the resolver's error.
get_schema_lenient(dec, name) ==
    IF name \notin DOMAIN dec.cache
    THEN CHOOSE y \in { IF IsOk(r)
                        THEN Ret([Looked(dec, name, r) EXCEPT
                                      !.cache = MapInsert(@, name, r.val)], r)
                        ELSE Ret(Looked(dec, name, r), Ok(MessageSchema(name, << >>)))
                        : r \in {try_from(name)} } : TRUE
    ELSE Ret(dec, Ok(dec.cache[name]))

get_schema(dec, name) ==
    IF name \notin DOMAIN dec.cache
    THEN Try(CHOOSE y \in { Ret(Looked(dec, name, r), r) : r \in {try_from(name)} } : TRUE,
             LAMBDA s : Ret([s.dec EXCEPT !.cache = MapInsert(@, name, s.res.val)],
                            Ok(s.res.val)))
    ELSE Ret(dec, Ok(dec.cache[name]))

\* json!(..) of a decoded value: v's value, when it has one, made a JSON value by f.
Json(v, f(_)) == Try(v, LAMBDA r : Ret(r.dec, Ok(f(r.res.val))))

\* Mutant of the match arm for the special ROS 2 types: no type name matches it.
no_builtin_time(t) == FALSE

\* "builtin_interfaces/msg/Time" | "builtin_interfaces/msg/Duration"
is_builtin_time(t) ==
    t \in {"builtin_interfaces/msg/Time", "builtin_interfaces/msg/Duration"}

RECURSIVE decode(_, _), decode_fields(_, _, _, _), decode_primitive(_, _),
          decode_iterable(_, _), decode_items(_, _, _, _)

decode_primitive(dec, field) ==
    LET t == type_name(field)
        uint(v) == JNum("uint", v)
        sint(v) == JNum("sint", v)
        byte_uint(b) == JNum("uint", <<b>>)
        byte_sint(b) == JNum("sint", <<b>>)
    IN  CASE t = "boolean" -> Json(decode_bool(dec), JBool)
          [] t = "octet" -> Json(decode_u8(dec), byte_uint)
          [] t = "char" -> Json(decode_char(dec), json_char)
          [] t = "float" -> Json(decode_f32(dec), json_f32)
          [] t = "double" -> Json(decode_f64(dec), json_f64)
          [] t = "int8" -> Json(decode_i8(dec), byte_sint)
          [] t = "uint8" -> Json(decode_u8(dec), byte_uint)
          [] t = "int16" -> Json(decode_i16(dec), sint)
          [] t = "uint16" -> Json(decode_u16(dec), uint)
          [] t = "int32" -> Json(decode_i32(dec), sint)
          [] t = "uint32" -> Json(decode_u32(dec), uint)
          [] t = "int64" -> Json(decode_i64(dec), sint)
          [] t = "uint64" -> Json(decode_u64(dec), uint)
          [] t = "string" -> Json(decode_string(dec), JStr)
          [] is_builtin_time(t) ->
                Try(decode_i32(dec), LAMBDA sec :
                Try(decode_u32(sec.dec), LAMBDA nanosec :
                    Ret(nanosec.dec,
                        Ok(JObj(MapInsert(MapInsert(EmptyMap, "sec", sint(sec.res.val)),
                                          "nanosec", uint(nanosec.res.val)))))))
          [] OTHER ->
                Try(get_schema(dec, t), LAMBDA nested_schema :
                    decode(nested_schema.dec, nested_schema.res.val))

\* for _ in 0..length { items.push(self.decode_primitive(field)?) }
decode_items(dec, field, n, items) ==
    IF n = 0 THEN Ret(dec, Ok(JArr(items)))
    ELSE Try(decode_primitive(dec, field), LAMBDA r :
             decode_items(r.dec, field, n - 1, Append(items, r.res.val)))

\* Mutant of decode_iterable: an array's length is read from the wire too.
decode_iterable_prefixed(dec, field) ==
    Try(Try(decode_u32(dec), LAMBDA l : Ret(l.dec, Ok(as_usize(l.res.val)))),
        LAMBDA length : decode_items(length.dec, field, length.res.val, <<>>))

decode_iterable(dec, field) ==
    LET ft == field.field_type
    IN  Try(CASE ft.kind = "Array" -> Ret(dec, Ok(ft.len))
              [] ft.kind = "Sequence" ->
                     Try(decode_u32(dec), LAMBDA l : Ret(l.dec, Ok(as_usize(l.res.val))))
              [] OTHER -> Ret(dec, Ok(0)),
            LAMBDA length : decode_items(length.dec, field, length.res.val, <<>>))

\* for field in schema.fields.iter(), from the i-th field on.
decode_fields(dec, fields, i, object) ==
    IF i > Len(fields) THEN Ret(dec, Ok(JObj(object)))
    ELSE Try(IF is_iterable(fields[i]) THEN decode_iterable(dec, fields[i])
             ELSE decode_primitive(dec, fields[i]),
             LAMBDA value :
                 decode_fields(value.dec, fields, i + 1,
                               MapInsert(object, fields[i].name, value.res.val)))

decode(dec, schema) == decode_fields(dec, schema.fields, 1, EmptyMap)

\* ------------------------------------------------------------------------
\* Inputs of the decoder's state machine
\* ------------------------------------------------------------------------

MaxRamp == 16

MaxLen == 3

MaxContent == 2

\* Byte 1 is 0x00, 0x01 or another value; the other header bytes vary too.
Headers == { <<0, 0, 0, 0>>, <<0, 1, 0, 0>>, <<1, 0, 1, 1>>, <<0, 2, 0, 0>> }

\* Bodies whose i-th byte is i: a value read shows which bytes were read.
RampBodies == { [i \in 1..n |-> i] : n \in 0..MaxRamp }

\* NUL, 'A', and the two bytes of U+00E9, each ill-formed when it stands alone.
ContentBytes == {0, 65, 195, 169}

Contents == UNION { [1..k -> ContentBytes] : k \in 0..MaxContent }

LengthPrefix(L, e) == IF e = "Big" THEN <<0, 0, 0, L>> ELSE <<L, 0, 0, 0>>

\* A length prefix in either byte order, then content bytes.
PrefixedBodies ==
    { LengthPrefix(L, e) \o c :
        L \in 0..MaxLen, e \in {"Big", "Little"}, c \in Contents \cup RampBodies }

\* 722, 5000, -1 and i32::MIN, little-endian.
SampleWords == { <<210, 2, 0, 0>>, <<136, 19, 0, 0>>, <<255, 255, 255, 255>>, <<0, 0, 0, 128>> }

TimeBodies == { s \o n : s \in SampleWords, n \in SampleWords }

\* "hello\0" and "world\0"
Hello == <<104, 101, 108, 108, 111, 0>>

World == <<119, 111, 114, 108, 100, 0>>

\* tests/test_cdr.rs: the payloads of test_decode_time and test_decode_string_array
TimeData == <<0, 1, 0, 0, 210, 2, 0, 0, 136, 19, 0, 0>>

StringArrayData ==
    <<0, 1, 0, 0, 2, 0, 0, 0>> \o <<6, 0, 0, 0>> \o Hello \o <<6, 0, 0, 0>> \o World

\* The same two strings as a CDR encoder lays them out: the second length
\* prefix 4-byte aligned, two padding bytes after the first string's NUL.
StringArrayAligned ==
    <<0, 1, 0, 0, 2, 0, 0, 0>> \o <<6, 0, 0, 0>> \o Hello \o <<0, 0>>
        \o <<6, 0, 0, 0>> \o World

\* Shorter than the 4-byte header.
ShortPayloads == { <<>>, <<0>>, <<0, 1>>, <<0, 0, 0>> }

Payloads ==
    { h \o b : h \in Headers, b \in RampBodies \cup PrefixedBodies \cup TimeBodies }
        \cup ShortPayloads \cup {StringArrayData, StringArrayAligned}

\* The payloads a decoder is re-targeted onto.
ResetPayloads ==
    { h \o [i \in 1..MaxRamp |-> i] : h \in Headers }
        \cup {<<0, 0, 0>>, TimeData, StringArrayData, StringArrayAligned}

TimeFields == << MessageField("sec", Object("int32")), MessageField("nanosec", Object("uint32")) >>

Schemas ==
    { MessageSchema("builtin_interfaces/msg/Time", TimeFields),
      MessageSchema("builtin_interfaces/msg/Duration", TimeFields),
      MessageSchema("custom/msg/StringArray",
                    << MessageField("values", Sequence("string")) >>),
      MessageSchema("custom/msg/BoolInt",
                    << MessageField("flag", Object("boolean")),
                       MessageField("n", Object("int32")) >>),
      MessageSchema("custom/msg/Stamped",
                    << MessageField("id", Object("uint8")),
                       MessageField("stamp", Object("builtin_interfaces/msg/Time")) >>),
      MessageSchema("custom/msg/StrOnly", << MessageField("s", Object("string")) >>),
      MessageSchema("custom/msg/Str",
                    << MessageField("s", Object("string")),
                       MessageField("t", Object("octet")) >>),
      MessageSchema("custom/msg/Arr",
                    << MessageField("b", Object("int8")),
                       MessageField("a", Array("uint16", 3)),
                       MessageField("z", Object("uint8")) >>),
      MessageSchema("custom/msg/Seq8",
                    << MessageField("q", Sequence("uint8")) >>),
      MessageSchema("custom/msg/Seq16",
                    << MessageField("q", Sequence("int16")),
                       MessageField("z", Object("char")) >>),
      MessageSchema("custom/msg/Floats",
                    << MessageField("c", Object("char")),
                       MessageField("f", Object("float")),
                       MessageField("d", Object("double")) >>),
      MessageSchema("custom/msg/Wide",
                    << MessageField("h", Object("int16")),
                       MessageField("l", Object("int64")),
                       MessageField("w", Object("uint32")),
                       MessageField("u", Object("uint64")) >>),
      MessageSchema("custom/msg/Spans",
                    << MessageField("rest", Sequence("builtin_interfaces/msg/Duration")),
                       MessageField("first", Array("builtin_interfaces/msg/Time", 1)) >>),
      MessageSchema("custom/msg/Items",
                    << MessageField("items", Array("pkg/msg/Inner", 2)) >>),
      MessageSchema("custom/msg/Broken",
                    << MessageField("k", Object("octet")),
                       MessageField("m", Object("pkg/msg/Missing")) >>),
      MessageSchema("custom/msg/Empty", << >>),
      MessageSchema("pkg/msg/Outer", IdlStore["pkg/msg/Outer"]) }

NoSchema == MessageSchema("", << >>)

\* ------------------------------------------------------------------------
\* The decoder's state machine: the calls the repository makes on a CdrDecoder
\* (new or from_schema, then reset(data).decode(schema) any number of times)
\* ------------------------------------------------------------------------

\* via: the call that put the decoder on its buffer (new or reset).
Call(op, data, schema, via) == [op |-> op, data |-> data, schema |-> schema, via |-> via]

\* No value has been encoded, no batch or table requested.
NoRoundTrip == [none |-> TRUE]

NoBatch == [phase |-> "idle"]

NoCsv == [phase |-> "idle"]

\* No call on the schema module has been made.
NoSchemaOp == [op |-> "none"]

\* No call on a bag reader has been made.
NoBagOp == [op |-> "none"]

\* No decode is being followed.
NoNest == [phase |-> "idle"]

\* The viewer has not been started.
NoGui == [phase |-> "idle"]

Init ==
    /\ decoder = NoDecoder
    /\ result = Ok(<<>>)
    /\ lastOp = Call("init", <<>>, NoSchema, "none")
    /\ rt = NoRoundTrip
    /\ batch = NoBatch
    /\ csv = NoCsv
    /\ world = Installed
    /\ schemaOp = NoSchemaOp
    /\ bagOp = NoBagOp
    /\ nest = NoNest
    /\ gui = NoGui

\* A decoder exists and the thread using it has not panicked.
Alive == lastOp.op # "init" /\ result.tag # "Panic"

New ==
    /\ lastOp.op = "init"
    /\ \E data \in Payloads :
        /\ \E r \in {new(data)} :
               /\ decoder' = r.dec
               /\ result' = r.res
        /\ lastOp' = Call("new", data, NoSchema, "new")
        /\ UNCHANGED <<rt, batch, csv, world, schemaOp, bagOp, nest, gui>>

FromSchema ==
    /\ lastOp.op = "init"
    /\ \E schema \in Schemas :
        /\ decoder' = from_schema(schema)
        /\ result' = Ok(<<>>)
        /\ lastOp' = Call("from_schema", <<>>, schema, "none")
        /\ UNCHANGED <<rt, batch, csv, world, schemaOp, bagOp, nest, gui>>

Reset ==
    /\ Alive
    /\ \E data \in ResetPayloads :
        /\ \E r \in {reset(decoder, data)} :
               /\ decoder' = r.dec
               /\ result' = r.res
        /\ lastOp' = Call("reset", data, NoSchema, "reset")
        /\ UNCHANGED <<rt, batch, csv, world, schemaOp, bagOp, nest, gui>>

Decode ==
    /\ Alive
    /\ lastOp.op \in {"new", "reset"}
    /\ \E schema \in Schemas :
        /\ \E r \in {decode(decoder, schema)} :
               /\ decoder' = r.dec
               /\ result' = r.res
        /\ lastOp' = Call("decode", lastOp.data, schema, lastOp.op)
        /\ UNCHANGED <<rt, batch, csv, world, schemaOp, bagOp, nest, gui>>

Next == New \/ FromSchema \/ Reset \/ Decode

Spec == Init /\ [][Next]_vars

\* ------------------------------------------------------------------------
\* Properties of the decoder
\* ------------------------------------------------------------------------

\* The bytes after the header of the payload the decoder is on.
Body == body_of(lastOp.data)

\* The bytes of the payload that a read returned, in wire order.
WireBytes(e) == SubSeq(Body, e.start + 1, e.after)

Decoded == lastOp.op = "decode"

DecodedOk == Decoded /\ IsOk(result)

SchemaIs(name) == lastOp.schema.type_name = name

\* C4: the byte order of every multi-byte read is fixed by byte offset 1 of the
\* payload (0x00: big-endian, any other value: little-endian), for a decoder
\* built with new and for one re-targeted with reset.
C4_ByteOrderFromHeader ==
    (Alive /\ lastOp.op \in {"new", "reset", "decode"}) =>
        /\ decoder.endianness = (IF lastOp.data[2] = 0 THEN "Big" ELSE "Little")
        /\ \A i \in 1..Len(decoder.reads) :
              LET e == decoder.reads[i]
              IN  e.val = IF lastOp.data[2] = 0 THEN WireBytes(e)
                          ELSE Reverse(WireBytes(e))

\* A reset decoder has read an 8-byte value big-endian whose bytes differ by order.
C4_Witness ==
    /\ DecodedOk
    /\ lastOp.via = "reset"
    /\ lastOp.data[2] = 0
    /\ lastOp.data[1] # 0
    /\ \E i \in 1..Len(decoder.reads) :
          /\ decoder.reads[i].size = 8
          /\ decoder.reads[i].val # Reverse(decoder.reads[i].val)

\* C5: before every 2-, 4- or 8-byte read exactly the padding to the next
\* multiple of the size (from the end of the header) is skipped, nothing before
\* a 1-byte read; a boolean followed by an int32 skips exactly 3 bytes.
C5_AlignmentPadding ==
    Decoded =>
        /\ \A i \in 1..Len(decoder.reads) :
              LET e == decoder.reads[i]
              IN  /\ e.size \in {1, 2, 4, 8}
                  /\ e.start >= e.before
                  /\ e.start - e.before < e.size
                  /\ e.start % e.size = 0
                  /\ e.after = e.start + e.size
        /\ (SchemaIs("custom/msg/BoolInt") /\ Len(decoder.reads) = 2) =>
              /\ decoder.reads[1].after = 1
              /\ decoder.reads[2].before = 1
              /\ decoder.reads[2].start - decoder.reads[2].before = 3

\* A boolean and then an int32 were read.
C5_Witness ==
    /\ DecodedOk
    /\ SchemaIs("custom/msg/BoolInt")
    /\ Len(decoder.reads) = 2
    /\ decoder.reads[2].start = 4

\* The size of the read a fixed-size primitive takes (a string: its length prefix).
PrimSize(t) ==
    CASE t \in {"boolean", "octet", "char", "int8", "uint8"} -> 1
      [] t \in {"int16", "uint16"} -> 2
      [] t \in {"int32", "uint32", "float", "string"} -> 4
      [] t \in {"int64", "uint64", "double"} -> 8

\* The sizes of the reads one value of type t takes.
ElemReads(t) ==
    CASE t \in {"builtin_interfaces/msg/Time", "builtin_interfaces/msg/Duration"} -> <<4, 4>>
      [] t \in DOMAIN IdlStore ->
            [i \in 1..Len(IdlStore[t]) |-> PrimSize(type_name(IdlStore[t][i]))]
      [] OTHER -> <<PrimSize(t)>>

\* The reads from index j on begin with those of n values of read sizes per.
ReadsOfElems(j, per, n) ==
    /\ j + n * Len(per) - 1 <= Len(decoder.reads)
    /\ \A m \in 0..(n * Len(per) - 1) : decoder.reads[j + m].size = per[(m % Len(per)) + 1]

IsIntType(t) ==
    t \in {"octet", "int8", "uint8", "int16", "uint16", "int32", "uint32", "int64", "uint64"}

\* List `items` holds n values, the k-th the value of the k-th read from j on.
ItemsInWireOrder(items, f, j, n) ==
    /\ items.k = "arr"
    /\ Len(items.v) = n
    /\ IsIntType(type_name(f)) => \A m \in 1..n : items.v[m].v = decoder.reads[j + m - 1].val

\* The reads from index j on are exactly those of fields i.. of the schema: an
\* array gives its declared number of values and no length prefix, a sequence
\* one 4-byte read of a length L and then L values.
RECURSIVE Layout(_, _, _, _)
Layout(fields, i, j, doc) ==
    IF i > Len(fields) THEN j = Len(decoder.reads) + 1
    ELSE LET f == fields[i]
             per == ElemReads(type_name(f))
             kind == f.field_type.kind
         IN  CASE kind = "Object" ->
                    /\ ReadsOfElems(j, per, 1)
                    /\ Layout(fields, i + 1, j + Len(per), doc)
               [] kind = "Array" ->
                    /\ ReadsOfElems(j, per, f.field_type.len)
                    /\ ItemsInWireOrder(doc[f.name], f, j, f.field_type.len)
                    /\ Layout(fields, i + 1, j + f.field_type.len * Len(per), doc)
               [] kind = "Sequence" ->
                    /\ j <= Len(decoder.reads)
                    /\ decoder.reads[j].size = 4
                    /\ decoder.reads[j].start % 4 = 0
                    /\ LET L == as_usize(decoder.reads[j].val)
                       IN  /\ ReadsOfElems(j + 1, per, L)
                           /\ ItemsInWireOrder(doc[f.name], f, j + 1, L)
                           /\ Layout(fields, i + 1, j + 1 + L * Len(per), doc)

\* C6: an Array(T, N) consumes exactly N values of T and no length prefix, a
\* Sequence(T) one 4-byte-aligned length prefix L and then exactly L values;
\* the result lists that many elements in wire order.
C6_ArrayAndSequenceLayout ==
    DecodedOk =>
        /\ Layout(lastOp.schema.fields, 1, 1, result.val.v)
        /\ \A i \in 2..Len(decoder.reads) :
              decoder.reads[i].before >= decoder.reads[i - 1].after

\* A sequence of two int16 was decoded, and the field after it.
C6_Witness ==
    /\ DecodedOk
    /\ SchemaIs("custom/msg/Seq16")
    /\ Len(result.val.v["q"].v) = 2
    /\ decoder.pos = 9

\* One trailing NUL removed, when there is one.
StripOneNul(raw) ==
    IF raw # <<>> /\ raw[Len(raw)] = 0 THEN [i \in 1..(Len(raw) - 1) |-> raw[i]] ELSE raw

\* Well-formed UTF-8 for texts of one- and two-byte characters (the model's
\* payloads hold no lead byte of a longer character).
WellFormedText(s) ==
    \A i \in 1..Len(s) :
        \/ s[i] < 128
        \/ s[i] \in 194..223 /\ i < Len(s) /\ s[i + 1] \in 128..191
        \/ s[i] \in 128..191 /\ i > 1 /\ s[i - 1] \in 194..223

\* C7: a string is a 4-byte-aligned uint32 length L and L bytes, less one
\* trailing NUL (never more than one); bytes that are not UTF-8 fail with
\* InvalidUtf8 and give no text.
C7_StringDecode ==
    (/\ Decoded
     /\ lastOp.schema.fields # << >>
     /\ lastOp.schema.fields[1].field_type = Object("string")
     /\ Len(Body) >= 4) =>
        /\ Len(decoder.reads) >= 1
        /\ decoder.reads[1].size = 4
        /\ decoder.reads[1].start = 0
        /\ LET L == as_usize(decoder.reads[1].val)
           IN  IF 4 + L > Len(Body)
               THEN result.tag = "Err" /\ result.val = "UnexpectedEof"
               ELSE LET text == StripOneNul(SubSeq(Body, 5, 4 + L))
                    IN  IF ~WellFormedText(text)
                        THEN result.tag = "Err" /\ result.val = "InvalidUtf8"
                        ELSE /\ Len(lastOp.schema.fields) = 1 => IsOk(result)
                             /\ IsOk(result) => result.val.v["s"] = JStr(text)

\* A string of two NUL bytes was decoded: one NUL is left.
C7_Witness ==
    /\ DecodedOk
    /\ SchemaIs("custom/msg/StrOnly")
    /\ Body = <<2, 0, 0, 0, 0, 0>>
    /\ lastOp.data[2] = 1
    /\ result.val.v["s"].v = <<0>>

\* The integer of four big-endian bytes (below 2^31).
IntOfBytes(be) == ((be[1] * 256 + be[2]) * 256 + be[3]) * 256 + be[4]

\* C8: a header with byte 1 = 0x01, a little-endian int32 s and a little-endian
\* uint32 n decode against {sec: int32, nanosec: uint32} to {sec: s, nanosec: n};
\* the bytes of test_decode_time give sec 722 and nanosec 5000.
C8_TimeDecode ==
    (/\ Decoded
     /\ lastOp.schema.fields = TimeFields
     /\ Len(lastOp.data) = 12
     /\ lastOp.data[2] = 1) =>
        /\ IsOk(result)
        /\ result.val =
              JObj([n \in {"sec", "nanosec"} |->
                      IF n = "sec" THEN JNum("sint", Reverse(SubSeq(lastOp.data, 5, 8)))
                      ELSE JNum("uint", Reverse(SubSeq(lastOp.data, 9, 12)))])
        /\ lastOp.data = TimeData =>
              /\ IntOfBytes(result.val.v["sec"].v) = 722
              /\ IntOfBytes(result.val.v["nanosec"].v) = 5000

\* The payload of test_decode_time was decoded against the time schema.
C8_Witness ==
    /\ DecodedOk
    /\ lastOp.data = TimeData
    /\ SchemaIs("builtin_interfaces/msg/Time")

HelloWorldDoc ==
    JObj([n \in {"values"} |->
            JArr(<< JStr(SubSeq(Hello, 1, 5)), JStr(SubSeq(World, 1, 5)) >>)])

MaxSeq == 2

TimeTypes == {"builtin_interfaces/msg/Time", "builtin_interfaces/msg/Duration"}

\* Logical values of the primitive types: 1.0, +infinity and a NaN for float,
\* 1.0 and -infinity for double; the texts "", "A", U+00E9 and "A\0".
RECURSIVE TypeValues(_), FieldValues(_), Docs(_, _)
TypeValues(t) ==
    CASE t = "boolean" -> {JBool(TRUE), JBool(FALSE)}
      [] t = "char" -> {JStr(<<65>>)}
      [] t \in {"octet", "uint8"} -> {JNum("uint", <<0>>), JNum("uint", <<200>>)}
      [] t = "int8" -> {JNum("sint", <<1>>), JNum("sint", <<255>>)}
      [] t = "int16" -> {JNum("sint", <<1, 2>>), JNum("sint", <<255, 254>>)}
      [] t = "uint16" -> {JNum("uint", <<1, 2>>), JNum("uint", <<255, 254>>)}
      [] t = "int32" -> {JNum("sint", <<1, 2, 3, 4>>), JNum("sint", <<255, 255, 255, 254>>)}
      [] t = "uint32" -> {JNum("uint", <<1, 2, 3, 4>>), JNum("uint", <<255, 255, 255, 254>>)}
      [] t = "int64" -> {JNum("sint", <<1, 2, 3, 4, 5, 6, 7, 8>>),
                         JNum("sint", <<255, 255, 255, 255, 255, 255, 255, 254>>)}
      [] t = "uint64" -> {JNum("uint", <<1, 2, 3, 4, 5, 6, 7, 8>>),
                          JNum("uint", <<255, 255, 255, 255, 255, 255, 255, 254>>)}
      [] t = "float" -> {JNum("f32", <<63, 128, 0, 0>>), JNum("f32", <<127, 128, 0, 0>>),
                         JNum("f32", <<127, 192, 0, 0>>)}
      [] t = "double" -> {JNum("f64", <<63, 240, 0, 0, 0, 0, 0, 0>>),
                          JNum("f64", <<255, 240, 0, 0, 0, 0, 0, 0>>)}
      [] t = "string" -> {JStr(<<>>), JStr(<<65>>), JStr(<<195, 169>>), JStr(<<65, 0>>)}
      [] t \in TimeTypes -> { JObj(m) : m \in Docs(TimeFields, 1) }
      [] t \in DOMAIN IdlStore -> { JObj(m) : m \in Docs(IdlStore[t], 1) }

FieldValues(f) ==
    CASE f.field_type.kind = "Object" -> TypeValues(type_name(f))
      [] f.field_type.kind = "Array" ->
            { JArr(items) : items \in [1..f.field_type.len -> TypeValues(type_name(f))] }
      [] f.field_type.kind = "Sequence" ->
            { JArr(items) :
                items \in UNION { [1..k -> TypeValues(type_name(f))] : k \in 0..MaxSeq } }

\* The logical values of a message with fields i.. of `fields`.
Docs(fields, i) ==
    IF i > Len(fields) THEN {EmptyMap}
    ELSE { MapInsert(m, fields[i].name, v) :
             m \in Docs(fields, i + 1), v \in FieldValues(fields[i]) }

\* Zero bytes up to the next multiple of align.
PadTo(body, align) == body \o [i \in 1..((align - (Len(body) % align)) % align) |-> 0]

\* The bytes of a number in the buffer's byte order.
Wire(order, be) == IF order = "Big" THEN be ELSE Reverse(be)

\* A conforming CDR encoder: each primitive aligned to its size from the end of
\* the header, a string as its length with the NUL, its bytes and the NUL, a
\* sequence as its length and its elements, an array as its elements.
RECURSIVE EncodeValue(_, _, _, _), EncodeItems(_, _, _, _, _), EncodeFields(_, _, _, _, _)
EncodeValue(body, order, t, v) ==
    CASE t = "boolean" -> Append(body, IF v.v[1] THEN 1 ELSE 0)
      [] t = "char" -> body \o v.v
      [] t = "string" ->
            PadTo(body, 4) \o Wire(order, <<0, 0, 0, Len(v.v) + 1>>) \o v.v \o <<0>>
      [] t \in TimeTypes -> EncodeFields(body, order, TimeFields, 1, v.v)
      [] t \in DOMAIN IdlStore -> EncodeFields(body, order, IdlStore[t], 1, v.v)
      [] OTHER -> PadTo(body, Len(v.v)) \o Wire(order, v.v)

EncodeItems(body, order, t, items, i) ==
    IF i > Len(items) THEN body
    ELSE Bind(EncodeValue(body, order, t, items[i]),
              LAMBDA b : EncodeItems(b, order, t, items, i + 1))

EncodeFields(body, order, fields, i, doc) ==
    IF i > Len(fields) THEN body
    ELSE LET f == fields[i]
             v == doc[f.name]
         IN  Bind(CASE f.field_type.kind = "Object" -> EncodeValue(body, order, type_name(f), v)
                    [] f.field_type.kind = "Array" ->
                          EncodeItems(body, order, type_name(f), v.v, 1)
                    [] f.field_type.kind = "Sequence" ->
                          Bind(PadTo(body, 4) \o Wire(order, <<0, 0, 0, Len(v.v)>>),
                               LAMBDA b : EncodeItems(b, order, type_name(f), v.v, 1)),
                  LAMBDA b : EncodeFields(b, order, fields, i + 1, doc))

EncodedHeader(order) == <<0, IF order = "Big" THEN 0 ELSE 1, 0, 0>>

\* The schemas every type of which has a definition.
RtSchemas == { s \in Schemas : s.type_name # "custom/msg/Broken" }

\* A logical value of a schema is encoded in one of the two byte orders.
Encode ==
    /\ rt = NoRoundTrip
    /\ \E schema \in RtSchemas, order \in {"Big", "Little"} :
        \E value \in Docs(schema.fields, 1) :
            /\ \E body \in {EncodeFields(<<>>, order, schema.fields, 1, value)} :
                   rt' = [schema |-> schema, order |-> order, value |-> value,
                          data |-> EncodedHeader(order) \o body]
            /\ UNCHANGED <<decVars, batch, csv, world, schemaOp, bagOp, nest, gui>>

\* CdrDecoder::new on the encoded buffer.
NewEncoded ==
    /\ rt # NoRoundTrip
    /\ lastOp.op = "init"
    /\ \E r \in {new(rt.data)} :
           /\ decoder' = r.dec
           /\ result' = r.res
    /\ lastOp' = Call("new", rt.data, NoSchema, "new")
    /\ UNCHANGED <<rt, batch, csv, world, schemaOp, bagOp, nest, gui>>

\* decode(schema) of the encoded buffer.
DecodeEncoded ==
    /\ rt # NoRoundTrip
    /\ lastOp.op = "new"
    /\ \E r \in {decode(decoder, rt.schema)} :
           /\ decoder' = r.dec
           /\ result' = r.res
    /\ lastOp' = Call("decode", rt.data, rt.schema, "new")
    /\ UNCHANGED <<rt, batch, csv, world, schemaOp, bagOp, nest, gui>>

NextRoundTrip == Encode \/ NewEncoded \/ DecodeEncoded

SpecRoundTrip == Init /\ [][NextRoundTrip]_vars

RoundTripDone == rt # NoRoundTrip /\ lastOp.op = "decode"

\* C3 as stated: the decode of a conforming encoder's buffer for a logical
\* value returns exactly that value, for every schema and either byte order.
C3_RoundTrip ==
    RoundTripDone => IsOk(result) /\ result.val = JObj(rt.value)

\* The value json!() makes of a logical value: a float that is a NaN or an
\* infinity becomes null.
RECURSIVE AsJson(_)
AsJson(v) ==
    CASE v.k = "f32" -> json_f32(v.v)
      [] v.k = "f64" -> json_f64(v.v)
      [] v.k = "arr" -> JArr([i \in DOMAIN v.v |-> AsJson(v.v[i])])
      [] v.k = "obj" -> JObj([n \in DOMAIN v.v |-> AsJson(v.v[n])])
      [] OTHER -> v

\* What does hold of the round trip: the decode returns the value with every
\* non-finite float replaced by null, and so the value itself when all its
\* floats are finite.
RoundTripUpToNonFinite ==
    RoundTripDone => IsOk(result) /\ result.val = AsJson(JObj(rt.value))

\* ------------------------------------------------------------------------
\* try_decode_json: the topic's payloads decoded in parallel (rayon par_iter,
\* map_init, collect into a Result)
\* ------------------------------------------------------------------------

MaxBatch == 3

MaxWorkers == 2

\* reader.topics(): the topics of the bag, name and type.
BagTopics ==
    << [name |-> "/outer", type_name |-> "pkg/msg/Outer"],
       [name |-> "/broken", type_name |-> "pkg/msg/Missing"] >>

\* The topic names a caller asks for; "/none" is not in the bag.
RequestedTopics == {"/outer", "/broken", "/none"}

\* Payloads of pkg/msg/Outer {inner: {x: boolean, y: uint16}, tail: uint8}:
\* two that decode (little- and big-endian), one that ends inside y, and one
\* shorter than the header.
GoodLittle == <<0, 1, 0, 0, 1, 0, 2, 0, 7>>

GoodBig == <<0, 0, 0, 0, 0, 0, 0, 3, 9>>

Truncated == <<0, 1, 0, 0, 1>>

Headless == <<0, 1, 0>>

BatchPayloads == {GoodLittle, GoodBig, Truncated, Headless}

\* reader.read_messages(topic): the topic's payloads in timestamp order.
MessageLists == UNION { [1..n -> BatchPayloads] : n \in 0..MaxBatch }

\* The elements of a set of integers in ascending order.
RECURSIVE Ascending(_)
Ascending(S) ==
    IF S = {} THEN <<>>
    ELSE LET m == CHOOSE x \in S : \A y \in S : x <= y
         IN  <<m>> \o Ascending(S \ {m})

\* One job of the parallel iterator: the payloads lo..hi, the next one to
\* map, the values produced so far and the job's own decoder.
Chunk(lo, hi) ==
    [lo |-> lo, hi |-> hi, next |-> lo, out |-> <<>>, decoder |-> NoDecoder,
     state |-> "queued"]

\* The jobs rayon splits 1..n into when it splits after the indices in cuts.
SplitAt(n, cuts) ==
    IF n = 0 THEN <<>>
    ELSE LET ends == Ascending(cuts \cup {n})
         IN  [c \in 1..Len(ends) |-> Chunk(IF c = 1 THEN 1 ELSE ends[c - 1] + 1, ends[c])]

Running(b) == { c \in 1..Len(b.chunks) : b.chunks[c].state = "running" }

\* try_decode_json has not returned.
Pending == [tag |-> "Pending", val |-> <<>>]

\* try_decode_json up to the start of the parallel iterator: the topic is
\* looked up, its schema resolved, its messages read and split into jobs.
TryDecodeJson ==
    /\ batch = NoBatch
    /\ \E topic \in RequestedTopics, messages \in MessageLists, workers \in 1..MaxWorkers :
        \E cuts \in SUBSET (1..(Len(messages) - 1)) :
            /\ LET found == { i \in 1..Len(BagTopics) : BagTopics[i].name = topic }
                   returned(e) == [phase |-> "returned", topic |-> topic, outcome |-> Err(e)]
               IN  IF found = {}
                   THEN batch' = returned("TopicNotFound")
                   ELSE \E schema \in {try_from(BagTopics[CHOOSE i \in found : TRUE].type_name)} :
                            IF ~IsOk(schema)
                            THEN batch' = returned(schema.val)
                            ELSE batch' = [phase |-> "running", topic |-> topic,
                                           schema |-> schema.val, messages |-> messages,
                                           workers |-> workers,
                                           chunks |-> SplitAt(Len(messages), cuts),
                                           saved_error |-> <<>>, full |-> FALSE,
                                           panicked |-> FALSE, finished |-> <<>>,
                                           outcome |-> Pending]
            /\ UNCHANGED <<decVars, rt, csv, world, schemaOp, bagOp, nest, gui>>

\* A worker thread takes a job: with the stop flag set the job ends at once,
\* otherwise map_init builds the job's decoder (CdrDecoder::from_schema).
StartChunk ==
    \E c \in 1..(IF batch.phase = "running" THEN Len(batch.chunks) ELSE 0) :
        /\ batch.chunks[c].state = "queued"
        /\ Cardinality(Running(batch)) < batch.workers
        /\ batch' = IF batch.full
                    THEN [batch EXCEPT !.chunks[c].state = "done",
                                       !.finished = Append(@, c)]
                    ELSE [batch EXCEPT !.chunks[c].state = "running",
                                       !.chunks[c].decoder = from_schema(batch.schema)]
        /\ UNCHANGED <<decVars, rt, csv, world, schemaOp, bagOp, nest, gui>>

\* The job maps its next payload: decoder.reset(&msg.data).decode(&schema).
\* A value is pushed on the job's output; an error is saved if it is the first
\* and sets the stop flag; a panic ends the job and is kept for the caller.
MapItem ==
    \E c \in 1..(IF batch.phase = "running" THEN Len(batch.chunks) ELSE 0) :
        /\ batch.chunks[c].state = "running"
        /\ batch.chunks[c].next <= batch.chunks[c].hi
        /\ ~batch.full
        /\ \E r \in {reset(batch.chunks[c].decoder, batch.messages[batch.chunks[c].next])} :
               IF ~IsOk(r.res)
               THEN batch' = [batch EXCEPT !.chunks[c].state = "done",
                                           !.chunks[c].decoder = r.dec,
                                           !.finished = Append(@, c),
                                           !.panicked = TRUE]
               ELSE \E d \in {decode(r.dec, batch.schema)} :
                        IF IsOk(d.res)
                        THEN batch' = [batch EXCEPT !.chunks[c].decoder = d.dec,
                                                    !.chunks[c].next = @ + 1,
                                                    !.chunks[c].out = Append(@, d.res.val)]
                        ELSE batch' = [batch EXCEPT
                                         !.chunks[c].decoder = d.dec,
                                         !.chunks[c].next = @ + 1,
                                         !.saved_error =
                                             IF @ = <<>> THEN <<d.res.val>> ELSE @,
                                         !.full = TRUE]
        /\ UNCHANGED <<decVars, rt, csv, world, schemaOp, bagOp, nest, gui>>

\* The job ends: its payloads are all mapped, or the stop flag is set.
FinishChunk ==
    \E c \in 1..(IF batch.phase = "running" THEN Len(batch.chunks) ELSE 0) :
        /\ batch.chunks[c].state = "running"
        /\ batch.chunks[c].next > batch.chunks[c].hi \/ batch.full
        /\ batch' = [batch EXCEPT !.chunks[c].state = "done", !.finished = Append(@, c)]
        /\ UNCHANGED <<decVars, rt, csv, world, schemaOp, bagOp, nest, gui>>

RECURSIVE Concat(_, _, _)
Concat(chunks, order, i) ==
    IF i > Len(order) THEN <<>> ELSE chunks[order[i]].out \o Concat(chunks, order, i + 1)

\* Mutant of collect: the jobs' outputs joined in the order the jobs finished.
collect_as_finished(b) == Concat(b.chunks, b.finished, 1)

\* collect::<Vec<_>>: the jobs' outputs joined in the order of the jobs.
collect(b) == Concat(b.chunks, [c \in 1..Len(b.chunks) |-> c], 1)

\* All jobs have ended and try_decode_json returns: a panic of a job resumes
\* in the caller, else the saved error is returned, else the collected list.
Collect ==
    /\ batch.phase = "running"
    /\ \A c \in 1..Len(batch.chunks) : batch.chunks[c].state = "done"
    /\ batch' = [batch EXCEPT
                   !.phase = "returned",
                   !.outcome = IF batch.panicked THEN Panic("slice index out of range")
                               ELSE IF batch.saved_error # <<>> THEN Err(batch.saved_error[1])
                               ELSE Ok(collect(batch))]
    /\ UNCHANGED <<decVars, rt, csv, world, schemaOp, bagOp, nest, gui>>

NextBatch == TryDecodeJson \/ StartChunk \/ MapItem \/ FinishChunk \/ Collect

SpecBatch == Init /\ [][NextBatch]_vars

\* The decode of one payload by a decoder that has decoded nothing before.
ItemDecode(schema, data) ==
    LET r == reset(from_schema(schema), data)
    IN  IF IsOk(r.res) THEN decode(r.dec, schema).res ELSE r.res

\* The payloads decoded one after the other in input order by one decoder.
RECURSIVE Sequential(_, _, _, _, _)
Sequential(dec, schema, messages, i, out) ==
    IF i > Len(messages) THEN Ok(out)
    ELSE LET r == reset(dec, messages[i])
         IN  IF ~IsOk(r.res) THEN r.res
             ELSE LET d == decode(r.dec, schema)
                  IN  IF IsOk(d.res)
                      THEN Sequential(d.dec, schema, messages, i + 1, Append(out, d.res.val))
                      ELSE d.res

\* try_decode_json has returned from the parallel iterator.
BatchReturned == batch.phase = "returned" /\ "messages" \in DOMAIN batch

\* C1: the list the parallel batch decode returns has one document per payload,
\* element i the decode of payload i, and is the list sequential decoding in
\* input order gives, whatever the number of workers, the split into jobs and
\* the order in which the jobs finish.
C1_ParallelEqualsSequential ==
    BatchReturned =>
        LET seq == Sequential(from_schema(batch.schema), batch.schema, batch.messages, 1, <<>>)
        IN  /\ IsOk(batch.outcome) <=> IsOk(seq)
            /\ IsOk(batch.outcome) =>
                  /\ Len(batch.outcome.val) = Len(batch.messages)
                  /\ \A i \in 1..Len(batch.messages) :
                        Ok(batch.outcome.val[i]) = ItemDecode(batch.schema, batch.messages[i])
                  /\ batch.outcome.val = seq.val

\* Three payloads, not all alike, were decoded by two workers in jobs that
\* finished out of input order.
C1_Witness ==
    /\ BatchReturned
    /\ IsOk(batch.outcome)
    /\ Len(batch.messages) = 3
    /\ batch.messages[1] # batch.messages[3]
    /\ batch.workers = 2
    /\ Len(batch.finished) >= 2
    /\ batch.finished[1] > batch.finished[2]

\* C2 as stated: when the decode of any payload of the batch fails, the batch
\* decode returns an error, whatever the position of the failing payload and
\* the interleaving of the workers.
C2_FailureReturnsError ==
    (/\ BatchReturned
     /\ \E i \in 1..Len(batch.messages) :
           ~IsOk(ItemDecode(batch.schema, batch.messages[i]))) =>
        batch.outcome.tag = "Err"

\* What does hold: a batch with a failing payload never returns a list, and
\* returns an error when every payload has its 4-byte header.
NoPartialList ==
    (/\ BatchReturned
     /\ \E i \in 1..Len(batch.messages) :
           ~IsOk(ItemDecode(batch.schema, batch.messages[i]))) =>
        /\ ~IsOk(batch.outcome)
        /\ (\A i \in 1..Len(batch.messages) : Len(batch.messages[i]) >= HeaderLen) =>
              batch.outcome.tag = "Err"

\* ------------------------------------------------------------------------
\* try_decode_csv: the documents of a topic flattened into columns and rows
\* ------------------------------------------------------------------------

MaxCsvSeq == 3

MaxCsvRows == 3

\* The UTF-8 bytes of the field names of the documents below.
NameBytes ==
    [n \in {"id", "q", "s"} |->
        CASE n = "id" -> <<105, 100>> [] n = "q" -> <<113>> [] n = "s" -> <<115>>]

\* The decimal digits of a natural number, as text.
RECURSIVE Decimal(_)
Decimal(n) == IF n < 10 THEN <<48 + n>> ELSE Decimal(n \div 10) \o <<48 + (n % 10)>>

\* The natural number of big-endian bytes (below 2^31).
RECURSIVE NatOf(_, _, _)
NatOf(be, i, acc) == IF i > Len(be) THEN acc ELSE NatOf(be, i + 1, acc * 256 + be[i])

\* A nested key: prefix "." part.
JoinKey(prefix, part) == IF prefix = <<>> THEN part ELSE prefix \o <<46>> \o part

\* The leaves of a value with their keys: the keys of nested objects joined
\* with ".", the elements of an array keyed by their position from 0.
RECURSIVE Leaves(_, _)
Leaves(prefix, v) ==
    CASE v.k = "obj" ->
            UNION { Leaves(JoinKey(prefix, NameBytes[n]), v.v[n]) : n \in DOMAIN v.v }
      [] v.k = "arr" ->
            UNION { Leaves(JoinKey(prefix, Decimal(i - 1)), v.v[i]) : i \in 1..Len(v.v) }
      [] OTHER -> { <<prefix, v>> }

\* flatten_json: the flat map from key to leaf value.
flatten_json(object) ==
    LET pairs == Leaves(<<>>, JObj(object))
    IN  Ok([key \in { p[1] : p \in pairs } |-> (CHOOSE p \in pairs : p[1] = key)[2]])

\* Value::to_string: the compact JSON text of a leaf (the documents of this
\* specification hold unsigned integers, texts without escapes and booleans).
to_string(v) ==
    CASE v.k = "null" -> <<110, 117, 108, 108>>
      [] v.k = "bool" -> IF v.v[1] THEN <<116, 114, 117, 101>> ELSE <<102, 97, 108, 115, 101>>
      [] v.k = "str" -> <<34>> \o v.v \o <<34>>
      [] v.k = "uint" -> Decimal(NatOf(v.v, 1, 0))

\* The order of String: byte by byte, a proper prefix first.
RECURSIVE LexLess(_, _)
LexLess(a, b) ==
    IF a = <<>> THEN b # <<>>
    ELSE IF b = <<>> THEN FALSE
    ELSE IF a[1] # b[1] THEN a[1] < b[1]
    ELSE LexLess(Tail(a), Tail(b))

\* BTreeSet::iter: the columns in ascending order.
RECURSIVE iter(_)
iter(columns) ==
    IF columns = {} THEN <<>>
    ELSE LET m == CHOOSE x \in columns : \A y \in columns \ {x} : LexLess(x, y)
         IN  <<m>> \o iter(columns \ {m})

\* The loop of try_decode_csv from the i-th value on: the document's keys join
\* the columns, and its row has a cell for each column known by then.
RECURSIVE csv_rows(_, _, _, _)
csv_rows(json_values, i, columns, rows) ==
    IF i > Len(json_values) THEN Ok([columns |-> columns, rows |-> rows])
    ELSE IF json_values[i].k # "obj" THEN csv_rows(json_values, i + 1, columns, rows)
    ELSE Bind(flatten_json(json_values[i].v), LAMBDA flat :
         IF ~IsOk(flat) THEN flat
         ELSE Bind(columns \cup DOMAIN flat.val, LAMBDA extended :
              Bind(iter(extended), LAMBDA cols :
                  csv_rows(json_values, i + 1, extended,
                           Append(rows,
                                  [j \in 1..Len(cols) |->
                                      IF cols[j] \in DOMAIN flat.val
                                      THEN to_string(flat.val[cols[j]])
                                      ELSE <<>>])))))

\* try_decode_csv after try_decode_json returned json.
try_decode_csv(json) == IF IsOk(json) THEN csv_rows(json.val, 1, {}, <<>>) ELSE json

\* Documents {id, q} with a sequence q of 1..MaxCsvSeq numbers, and {id, s}.
CsvDocs ==
    { JObj(MapInsert(MapInsert(EmptyMap, "id", JNum("uint", <<a>>)),
                     "q", JArr([i \in 1..n |-> JNum("uint", <<10 * i>>)]))) :
        a \in {7, 200}, n \in 1..MaxCsvSeq }
    \cup
    { JObj(MapInsert(MapInsert(EmptyMap, "id", JNum("uint", <<a>>)), "s", JStr(<<97>>))) :
        a \in {7, 200} }

\* What try_decode_json returned: a list of documents, or an error.
JsonResults ==
    { Ok(l) : l \in UNION { [1..n -> CsvDocs] : n \in 0..MaxCsvRows } }
        \cup { Err("UnexpectedEof") }

TryDecodeCsv ==
    /\ csv = NoCsv
    /\ \E json \in JsonResults :
           \E r \in {try_decode_csv(json)} :
               csv' = [phase |-> "returned", json |-> json, result |-> r]
    /\ UNCHANGED <<decVars, rt, batch, world, schemaOp, bagOp, nest, gui>>

NextCsv == TryDecodeCsv

SpecCsv == Init /\ [][NextCsv]_vars

\* try_decode_csv has returned a table.
CsvReturned == csv.phase = "returned" /\ IsOk(csv.json)

\* The length of a document's sequence q (0 without one).
SeqLen(doc) == IF "q" \in DOMAIN doc.v THEN Len(doc.v["q"].v) ELSE 0

\* The column "q.<i>".
KeyQ(i) == <<113, 46>> \o Decimal(i)

\* C10 as stated: with a sequence of length 2 in one document and of length 3
\* in another, in either order, the columns are the union of all flattened
\* keys (q.0, q.1, q.2) and the row of the shorter document has a cell for
\* every column, the one for q.2 empty.
C10_UnionColumnsEmptyCell ==
    CsvReturned =>
        \A i, j \in 1..Len(csv.json.val) :
            (SeqLen(csv.json.val[i]) = 2 /\ SeqLen(csv.json.val[j]) = 3) =>
                /\ IsOk(csv.result)
                /\ csv.result.val.columns =
                      UNION { DOMAIN flatten_json(csv.json.val[k].v).val :
                                k \in 1..Len(csv.json.val) }
                /\ {KeyQ(0), KeyQ(1), KeyQ(2)} \subseteq csv.result.val.columns
                /\ LET cols == iter(csv.result.val.columns)
                       row == csv.result.val.rows[i]
                   IN  /\ Len(row) = Len(cols)
                       /\ \A p \in 1..Len(cols) : cols[p] = KeyQ(2) => row[p] = <<>>

\* What does hold: the returned columns are the union of all flattened keys,
\* and a row has one cell for each column of the documents up to its own, a
\* column its document lacks being empty.
CsvRowsOverColumnsSoFar ==
    CsvReturned =>
        /\ IsOk(csv.result)
        /\ csv.result.val.columns =
              UNION { DOMAIN flatten_json(csv.json.val[k].v).val :
                        k \in 1..Len(csv.json.val) }
        /\ Len(csv.result.val.rows) = Len(csv.json.val)
        /\ \A i \in 1..Len(csv.json.val) :
              LET flat == flatten_json(csv.json.val[i].v).val
                  cols == iter(UNION { DOMAIN flatten_json(csv.json.val[k].v).val :
                                         k \in 1..i })
                  row == csv.result.val.rows[i]
              IN  /\ Len(row) = Len(cols)
                  /\ \A p \in 1..Len(cols) :
                        row[p] = IF cols[p] \in DOMAIN flat THEN to_string(flat[cols[p]])
                                 ELSE <<>>

\* ------------------------------------------------------------------------
\* The schema module's state machine: an environment is installed, then a
\* function of schema.rs is called in it (the functions change nothing, so
\* one call per behaviour shows them all)
\* ------------------------------------------------------------------------

MaxIdlLines == 2

\* Values of AMENT_PREFIX_PATH: one or two search directories; the directory
\* /$X has a dollar sign in its name.
SearchPaths == { "/a", "/a:/b", "/b:/a", "/$X", "/b:/$X", "/c:/a" }

SearchDirs == { "/a", "/b", "/$X" }

MsgFile(dir) == dir \o "/share/pkg/msg/T.idl"

SrvFile == "/a/share/pkg/srv/T.idl"

\* The definition of pkg/msg/T each search directory holds when it holds one.
DirText(dir) ==
    CASE dir = "/a" -> "struct T {\n  int32 a;\n};\n"
      [] dir = "/b" -> "struct T {\n  uint8 b;\n  pkg::msg::T__2 more;\n};\n"
      [] OTHER -> "struct T {\n  boolean c;\n};\n"

\* The file system where, for each search directory d, T.idl is kinds[d]:
\* absent, a regular file, or a directory of that name.  The service
\* definition pkg/srv/T is always there.
FsOf(kinds) ==
    [p \in { MsgFile(d) : d \in { e \in SearchDirs : kinds[e] # "absent" } } \cup { SrvFile } |->
        IF p = SrvFile THEN File("struct T_Request {\n  int32 a;\n};\n")
        ELSE LET d == CHOOSE e \in SearchDirs : MsgFile(e) = p
             IN  IF kinds[d] = "file" THEN File(DirText(d)) ELSE Directory]

EnvOf(ament, x) ==
    [v \in (IF ament = "unset" THEN {} ELSE {"AMENT_PREFIX_PATH"})
           \cup (IF x = "unset" THEN {} ELSE {"X"}) |->
        IF v = "X" THEN x ELSE ament]

ResolveWorlds ==
    { Environment(EnvOf(ament, x), FsOf(kinds)) :
        ament \in SearchPaths \cup {"unset"}, x \in {"unset", "a"},
        kinds \in [SearchDirs -> {"absent", "file", "dir"}] }

\* Lines of a definition file, with and without the shape of a field.
IdlLines ==
    { "int32 x;", "  uint8 y ;  ", "a b c;", "x;", "", "int32 z", "int32 w;;",
      "int32 v ;;", "sequence<a::b> s;\r", "c__3\tt;", "};", "int32 ;;" }

\* The texts of at most n of these lines, each ended by a line feed.
RECURSIVE IdlTexts(_)
IdlTexts(n) ==
    IF n = 0 THEN { "" }
    ELSE IdlTexts(n - 1) \cup { l \o "\n" \o t : l \in IdlLines, t \in IdlTexts(n - 1) }

ParseWorlds ==
    { Environment(EnvOf("/a", "unset"),
                  [p \in { MsgFile("/a") } |-> File(text)]) : text \in IdlTexts(MaxIdlLines) }

Worlds == ResolveWorlds \cup ParseWorlds

TypeNames == { "pkg/msg/T", "pkg/srv/T", "pkg/T", "pkg/msg/U", "T", "pkg/msg/T/x" }

\* Type declarations: plain, scoped, array-encoded, sequences, near misses.
Declarations ==
    { "int32", "string", "a::b", "a::b::C", "a:::b", "x__3", "a::b__12", "x__0", "x__007",
      "__3", "x__", "x_3", "x___3", "a__b__3", "sequence<int32>", "sequence<a::b>",
      "sequence<>", "sequence<int32", "sequence<x>__2", "sequence<x__2>",
      "x__65535", "x__18446744073709551615", "x__18446744073709551616",
      "x__99999999999999999999999" }

SchemaCall(op, arg, name, out) == [op |-> op, arg |-> arg, name |-> name, out |-> out]

\* The environment the next calls run in.
Install ==
    /\ lastOp.op = "init"
    /\ schemaOp = NoSchemaOp
    /\ world = Installed
    /\ world' \in Worlds
    /\ UNCHANGED <<decVars, rt, batch, csv, schemaOp, bagOp, nest, gui>>

TryFrom ==
    /\ lastOp.op = "init"
    /\ schemaOp = NoSchemaOp
    /\ \E name \in TypeNames :
        /\ schemaOp' = SchemaCall("try_from", name, name, try_from(name))
        /\ UNCHANGED <<decVars, rt, batch, csv, world, bagOp, nest, gui>>

FindRosIdlPath ==
    /\ lastOp.op = "init"
    /\ schemaOp = NoSchemaOp
    /\ \E name \in TypeNames :
        /\ schemaOp' = SchemaCall("find_ros_idl_path", name, name, find_ros_idl_path(world, name))
        /\ UNCHANGED <<decVars, rt, batch, csv, world, bagOp, nest, gui>>

ParseIdlToSchema ==
    /\ lastOp.op = "init"
    /\ schemaOp = NoSchemaOp
    /\ \E path \in DOMAIN world.fs \cup { "/none.idl" } :
        /\ schemaOp' = SchemaCall("parse_idl_to_schema", path, "pkg/msg/T",
                                  parse_idl_to_schema(world, path, "pkg/msg/T"))
        /\ UNCHANGED <<decVars, rt, batch, csv, world, bagOp, nest, gui>>

\* to_field_type reads nothing of the environment.
ToFieldType ==
    /\ lastOp.op = "init"
    /\ schemaOp = NoSchemaOp
    /\ world = Installed
    /\ \E s \in Declarations :
        /\ schemaOp' = SchemaCall("to_field_type", s, "", to_field_type(s))
        /\ UNCHANGED <<decVars, rt, batch, csv, world, bagOp, nest, gui>>

NextSchema == Install \/ TryFrom \/ FindRosIdlPath \/ ParseIdlToSchema \/ ToFieldType

SpecSchema == Init /\ [][NextSchema]_vars

\* ------------------------------------------------------------------------
\* Properties of schema resolution
\* ------------------------------------------------------------------------

\* The call made and its argument.
Called(op) == schemaOp.op = op

\* The '/'-separated components of the type name of the call.
NameParts == split(schemaOp.name, "/")

\* The search directories, in search-path order (none when the variable is unset).
SearchDirectories ==
    IF "AMENT_PREFIX_PATH" \in DOMAIN world.env
    THEN split(world.env["AMENT_PREFIX_PATH"], ":")
    ELSE << >>

\* Where the definition file of the call's type name is under a directory.
DefinitionFile(dir) ==
    dir \o "/share/" \o NameParts[1] \o "/msg/" \o NameParts[3] \o ".idl"

\* The positions in the search path of the directories that hold the file.
HoldingDirs ==
    IF Len(NameParts) < 3 THEN {}
    ELSE { i \in 1..Len(SearchDirectories) : DefinitionFile(SearchDirectories[i]) \in DOMAIN world.fs }

IsMessageCategory == Len(NameParts) >= 2 /\ NameParts[2] = "msg"

\* The file under the earliest directory that holds one.
Located ==
    DefinitionFile(SearchDirectories[CHOOSE first \in HoldingDirs : \A other \in HoldingDirs : first <= other])

\* The schema a definition file's text stands for.
SchemaOfText(name, text) == MessageSchema(name, parse_lines(lines(text), 1))

\* C11: try_from fails with the not-found error whenever the category is not
\* msg or no search directory holds the definition file (never a default or
\* empty schema); otherwise it returns the schema parsed from the located file.
C11_ResolveOrNotFound ==
    Called("try_from") =>
        IF ~IsMessageCategory \/ HoldingDirs = {}
        THEN schemaOp.out = Err("IdlNotFound")
        ELSE schemaOp.out = Ok(SchemaOfText(schemaOp.name, world.fs[Located].text))

\* What holds of try_from: the not-found cases are as stated, and a located
\* regular file whose path has no '$' is the one parsed.
ResolvePlainFiles ==
    Called("try_from") =>
        IF ~IsMessageCategory \/ HoldingDirs = {}
        THEN schemaOp.out = Err("IdlNotFound")
        ELSE (world.fs[Located].kind = "file" /\ find_from(Located, "$", 1) = 0)
             => schemaOp.out = Ok(SchemaOfText(schemaOp.name, world.fs[Located].text))

\* The located file is /$X/share/pkg/msg/T.idl: with X unset try_from fails
\* with the expansion's error; with X = /a it reads /a/share/pkg/msg/T.idl.
ExpandedLocatedPath ==
    (Called("try_from") /\ IsMessageCategory /\ HoldingDirs # {}
     /\ Located = MsgFile("/$X") /\ world.fs[Located].kind = "file")
        => IF "X" \notin DOMAIN world.env THEN schemaOp.out = Err("Other")
           ELSE schemaOp.out = parse_idl_to_schema(world, MsgFile("/a"), schemaOp.name)

\* try_from returned the schema of another file than the located one.
WrongFileParsed ==
    /\ Called("try_from") /\ IsMessageCategory /\ HoldingDirs # {}
    /\ world.fs[Located].kind = "file"
    /\ IsOk(schemaOp.out)
    /\ schemaOp.out # Ok(SchemaOfText(schemaOp.name, world.fs[Located].text))

\* The holding directories hold different files, and the earliest is not the
\* only one.
SeveralHold == Cardinality(HoldingDirs) >= 2

\* C15: when several search directories hold the definition file,
\* find_ros_idl_path returns the file under the earliest of them in
\* search-path order, and no file under a later directory.
C15_EarliestDirectoryWins ==
    (Called("find_ros_idl_path") /\ IsMessageCategory /\ HoldingDirs # {})
        => /\ schemaOp.out = Some(Located)
           /\ \A k \in HoldingDirs :
                  DefinitionFile(SearchDirectories[k]) # Located
                      => schemaOp.out.val # DefinitionFile(SearchDirectories[k])

\* /b and /a both hold T.idl, /b comes first and its file is returned.
C15_Witness ==
    /\ Called("find_ros_idl_path") /\ IsMessageCategory /\ SeveralHold
    /\ SearchDirectories = << "/b", "/a" >>
    /\ schemaOp.out = Some("/b/share/pkg/msg/T.idl")

\* ------------------------------------------------------------------------
\* Properties of the definition parser
\* ------------------------------------------------------------------------

\* The file the call was given is a regular file that expansion leaves alone.
ReadableArg ==
    /\ schemaOp.arg \in DOMAIN world.fs
    /\ world.fs[schemaOp.arg].kind = "file"
    /\ find_from(schemaOp.arg, "$", 1) = 0

\* The line without the whitespace around it: the piece of it that neither
\* starts nor ends with whitespace and has only whitespace on either side.
Trimmed(l) ==
    LET inside == { k \in 1..Len(l) : Ch(l, k) \notin Whitespace }
    IN  IF inside = {} THEN ""
        ELSE SubSeq(l, CHOOSE a \in inside : \A k \in inside : a <= k,
                       CHOOSE b \in inside : \A k \in inside : b >= k)

\* The statement of a trimmed line that ends with ';': the line up to its
\* closing delimiter (a run of ';' closes it as one).
Statement(t) ==
    LET before == { k \in 1..Len(t) : \E j \in k..Len(t) : Ch(t, j) # ";" }
    IN  SubSeq(t, 1, Cardinality(before))

\* Where the whitespace-separated tokens of a text start and end.
TokenStarts(t) ==
    { k \in 1..Len(t) : Ch(t, k) \notin Whitespace /\ (k = 1 \/ Ch(t, k - 1) \in Whitespace) }

TokenEnds(t) ==
    { k \in 1..Len(t) : Ch(t, k) \notin Whitespace /\ (k = Len(t) \/ Ch(t, k + 1) \in Whitespace) }

\* A line declares a field: trimmed it is non-empty, ends with ';' and its
\* statement has exactly two tokens.
DeclaresField(l) ==
    /\ Trimmed(l) # ""
    /\ Ch(Trimmed(l), Len(Trimmed(l))) = ";"
    /\ Cardinality(TokenStarts(Statement(Trimmed(l)))) = 2

\* The field of a declaring line: (type declaration, field name).
FieldOfLine(l) ==
    LET st == Statement(Trimmed(l))
        a1 == CHOOSE k \in TokenStarts(st) : \A j \in TokenStarts(st) : k <= j
        a2 == CHOOSE k \in TokenStarts(st) : \A j \in TokenStarts(st) : k >= j
        b1 == CHOOSE k \in TokenEnds(st) : \A j \in TokenEnds(st) : k <= j
        b2 == CHOOSE k \in TokenEnds(st) : \A j \in TokenEnds(st) : k >= j
    IN  MessageField(SubSeq(st, a2, b2), to_field_type(SubSeq(st, a1, b1)))

\* The fields of the declaring lines among ls, in line order.
RECURSIVE FieldsOfLines(_, _)
FieldsOfLines(ls, k) ==
    IF k > Len(ls) THEN << >>
    ELSE (IF DeclaresField(ls[k]) THEN << FieldOfLine(ls[k]) >> ELSE << >>)
         \o FieldsOfLines(ls, k + 1)

\* C16: parse_idl_to_schema yields one field for exactly the lines that,
\* trimmed, are non-empty, end with ';' and have exactly two
\* whitespace-separated tokens once the closing delimiter is removed; every
\* other line is skipped without an error; the fields are in line order.
C16_TwoTokenStatements ==
    (Called("parse_idl_to_schema") /\ ReadableArg)
        => \A ls \in { lines(world.fs[schemaOp.arg].text) } :
               schemaOp.out = Ok(MessageSchema(schemaOp.name, FieldsOfLines(ls, 1)))

\* A line of three tokens is skipped and the declaring line after it, with
\* whitespace around it and before its ';', gives the one field.
C16_Witness ==
    /\ Called("parse_idl_to_schema") /\ ReadableArg
    /\ world.fs[schemaOp.arg].text = "a b c;\n  uint8 y ;  \n"
    /\ schemaOp.out = Ok(MessageSchema("pkg/msg/T", << MessageField("y", Object("uint8")) >>))

\* Two declaring lines give two fields in line order.
TwoFieldsInLineOrder ==
    /\ Called("parse_idl_to_schema") /\ ReadableArg
    /\ world.fs[schemaOp.arg].text = "c__3\tt;\nint32 x;\n"
    /\ schemaOp.out = Ok(MessageSchema("pkg/msg/T",
                         << MessageField("t", Array("c", 3)),
                            MessageField("x", Object("int32")) >>))

\* The declaration has the form <base>__<digits>: the index where a
\* non-empty base ends, two underscores and a non-empty run of digits
\* following it to the end (at most one such index: '_' is no digit).
ArrayForm(s) ==
    { k \in 1..(Len(s) - 3) :
        /\ SubSeq(s, k + 1, k + 2) = "__"
        /\ \A j \in (k + 3)..Len(s) : IsDigit(Ch(s, j)) }

\* The declaration has the form sequence<INNER>.
SequenceForm(s) ==
    /\ Len(s) >= Len("sequence<>")
    /\ s = "sequence<" \o SubSeq(s, 10, Len(s) - 1) \o ">"

\* The number a run of digits denotes, held as LenCap from LenCap on.
RECURSIVE LengthOf(_)
LengthOf(digits) ==
    IF digits = "" THEN 0
    ELSE \* 10 * (all but the last digit) + the last digit
         LET upper == LengthOf(SubSeq(digits, 1, Len(digits) - 1))
             last == CHOOSE d \in 0..9 : ToString(d) = Ch(digits, Len(digits))
         IN  IF upper >= LenCap \/ 10 * upper + last >= LenCap THEN LenCap
             ELSE 10 * upper + last

\* The type name with every '::' replaced by '/'.
Normalized(t) == replace(t, "::", "/")

\* The classification the rules give, the first matching rule taken.
Classified(s) ==
    IF ArrayForm(s) # {}
    THEN LET k == CHOOSE k \in ArrayForm(s) : TRUE
         IN  Array(Normalized(SubSeq(s, 1, k)), LengthOf(SubSeq(s, k + 3, Len(s))))
    ELSE IF SequenceForm(s) THEN Sequence(Normalized(SubSeq(s, 10, Len(s) - 1)))
    ELSE Object(Normalized(s))

\* C17: a type declaration is classified by the first matching rule:
\* <base>__<digits> is Array(base, digits as the length), else sequence<INNER>
\* is Sequence(INNER), else Object(declaration); every '::' of the resulting
\* type name is replaced by '/'.
C17_Classification ==
    Called("to_field_type") => schemaOp.out = Classified(schemaOp.arg)

\* What holds of to_field_type: the classification is as stated whenever the
\* digits denote a number that fits in 64 bits, and the length is 0 otherwise.
ClassificationWithinUsize ==
    Called("to_field_type") =>
        IF ArrayForm(schemaOp.arg) # {}
           /\ ~IsOk(parse_usize(SubSeq(schemaOp.arg, digits_start(schemaOp.arg),
                                       Len(schemaOp.arg))))
        THEN schemaOp.out.kind = "Array" /\ schemaOp.out.len = 0
        ELSE schemaOp.out = Classified(schemaOp.arg)

\* A declaration whose digits denote 2^64: the array's length is 0.
LengthLost ==
    /\ Called("to_field_type")
    /\ schemaOp.arg = "x__18446744073709551616"
    /\ schemaOp.out = Array("x", 0)

\* ------------------------------------------------------------------------
\* Reads past the end of the buffer
\* ------------------------------------------------------------------------

FixedSizeTypes ==
    { "boolean", "octet", "char", "int8", "uint8", "int16", "uint16", "int32",
      "uint32", "float", "int64", "uint64", "double" }

\* Every field of the decoded schema is one fixed-size primitive.
FixedSchema ==
    \A i \in 1..Len(lastOp.schema.fields) :
        /\ ~is_iterable(lastOp.schema.fields[i])
        /\ type_name(lastOp.schema.fields[i]) \in FixedSizeTypes

\* Where the fields from the i-th on end when the i-th begins at pos: each
\* value begins at the next multiple of its size.
RECURSIVE FixedEnd(_, _, _)
FixedEnd(fields, i, pos) ==
    IF i > Len(fields) THEN pos
    ELSE LET n == PrimSize(type_name(fields[i]))
         IN  FixedEnd(fields, i + 1, ((pos + n - 1) \div n) * n + n)

\* The decoded schema is one length-prefixed field (a string or a sequence
\* of bytes) and the prefix read from the payload exceeds the bytes after it.
PrefixExceedsRest ==
    /\ (SchemaIs("custom/msg/StrOnly") \/ SchemaIs("custom/msg/Seq8"))
    /\ Len(Body) >= 4
    /\ as_usize(IF lastOp.data[2] = 0 THEN SubSeq(Body, 1, 4)
                ELSE Reverse(SubSeq(Body, 1, 4))) > Len(Body) - 4

\* The message ends before its last field does.
MessageTooShort ==
    \/ FixedSchema /\ FixedEnd(lastOp.schema.fields, 1, 0) > Len(Body)
    \/ PrefixExceedsRest
    \/ Len(lastOp.schema.fields) > 0 /\ Len(Body) = 0
          /\ ~(lastOp.schema.fields[1].field_type.kind = "Array"
                  /\ lastOp.schema.fields[1].field_type.len = 0)

\* Every value a decode has read lies within the buffer and is made of the
\* bytes at its place; a message that is too short gives the end-of-data
\* error, which leaves no document.
ReadsWithinBuffer ==
    Decoded =>
        /\ result.tag \in {"Ok", "Err"}
        /\ \A i \in 1..Len(decoder.reads) :
              LET e == decoder.reads[i]
              IN  /\ 0 <= e.before /\ e.before <= e.start
                  /\ e.after = e.start + e.size
                  /\ e.after <= Len(Body)
                  /\ e.val \in {WireBytes(e), Reverse(WireBytes(e))}
        /\ decoder.pos <= Len(Body)
        /\ MessageTooShort => result = Err("UnexpectedEof")

\* C12: for every payload and schema, payloads shorter than the 4-byte header
\* and length prefixes larger than the bytes remaining included, a read past
\* the end of the buffer ends the decode with the end-of-data error; the
\* decoder never crashes and never returns a value built from bytes outside
\* the buffer.
C12_ReadPastEndIsError ==
    /\ result.tag # "Panic"
    /\ ReadsWithinBuffer

\* Only a payload shorter than the header crashes, in new and in reset, and
\* it always does.
CrashOnlyWithoutHeader ==
    /\ ReadsWithinBuffer
    /\ lastOp.op \in {"new", "reset"} =>
          (result.tag = "Panic" <=> Len(lastOp.data) < HeaderLen)
    /\ lastOp.op \notin {"new", "reset"} => result.tag # "Panic"

\* A decoder made for a schema is put on a payload of three bytes.
HeaderlessReset ==
    /\ lastOp.op = "reset"
    /\ lastOp.data = <<0, 0, 0>>
    /\ result.tag = "Panic"

\* A string's length prefix larger than the rest of the message gave the
\* end-of-data error.
PrefixBeyondEnd ==
    /\ Decoded
    /\ SchemaIs("custom/msg/StrOnly")
    /\ PrefixExceedsRest
    /\ result = Err("UnexpectedEof")

\* ------------------------------------------------------------------------
\* Resetting a decoder
\* ------------------------------------------------------------------------

\* The step is a reset onto a payload that has a header.
ResetStep == lastOp'.op = "reset" /\ Len(lastOp'.data) >= HeaderLen

\* C13: reset onto a new payload re-detects the endianness from the new
\* payload (its second byte), places the cursor just after the payload's
\* 4-byte header, and leaves the schema cache as it was: the same keys with the
\* same schemas.
C13_ResetKeepsCache ==
    [][ResetStep =>
          /\ result' = Ok(<<>>)
          /\ decoder'.endianness = (IF lastOp'.data[2] = 0 THEN "Big" ELSE "Little")
          /\ decoder'.data = [i \in 1..(Len(lastOp'.data) - 4) |-> lastOp'.data[i + 4]]
          /\ decoder'.pos = 0
          /\ DOMAIN decoder'.cache = DOMAIN decoder.cache
          /\ \A n \in DOMAIN decoder.cache : decoder'.cache[n] = decoder.cache[n]
          /\ decoder'.resolved = decoder.resolved]_vars

\* A decoder that read a little-endian message and cached a nested schema
\* stands on a big-endian payload.
C13_Witness ==
    /\ lastOp.op = "reset"
    /\ result = Ok(<<>>)
    /\ lastOp.data[2] = 0
    /\ decoder.endianness = "Big"
    /\ decoder.pos = 0
    /\ DOMAIN decoder.cache = {"pkg/msg/Outer", "pkg/msg/Inner"}

\* ------------------------------------------------------------------------
\* The entries of a decoded document
\* ------------------------------------------------------------------------

\* serde_json::Map is a BTreeMap of its keys, or an IndexMap when serde_json
\* is built with its preserve_order feature.
MapBuilds == { "BTreeMap", "IndexMap" }

Letters == "_abcdefghijklmnopqrstuvwxyz"

\* The place of a character of a field name in the byte order.
Rank(c) == CHOOSE i \in 1..Len(Letters) : Ch(Letters, i) = c

\* Ord for String: a < b, byte by byte, a proper prefix first.
RECURSIVE str_less(_, _, _)
str_less(a, b, i) ==
    IF i > Len(b) THEN FALSE
    ELSE IF i > Len(a) THEN TRUE
    ELSE IF Ch(a, i) = Ch(b, i) THEN str_less(a, b, i + 1)
    ELSE Rank(Ch(a, i)) < Rank(Ch(b, i))

\* BTreeMap::iter: the keys in ascending order.
RECURSIVE btree_iter(_)
btree_iter(keys) ==
    IF keys = {} THEN <<>>
    ELSE LET least == CHOOSE k \in keys : \A o \in keys \ {k} : str_less(k, o, 1)
         IN  <<least>> \o btree_iter(keys \ {least})

\* IndexMap::iter: the keys in the order of their first insertion.
RECURSIVE index_iter(_, _)
index_iter(inserted, i) ==
    IF i > Len(inserted) THEN <<>>
    ELSE IF \E j \in 1..(i - 1) : inserted[j] = inserted[i] THEN index_iter(inserted, i + 1)
    ELSE <<inserted[i]>> \o index_iter(inserted, i + 1)

\* The keys of a Map as its iteration (and so its serialization) gives them,
\* after the keys of `inserted` were inserted one after another.
map_iter(build, inserted) ==
    IF build = "BTreeMap" THEN btree_iter({ inserted[i] : i \in 1..Len(inserted) })
    ELSE index_iter(inserted, 1)

\* The names of the decoded schema's fields, in field order.
FieldNames == [i \in 1..Len(lastOp.schema.fields) |-> lastOp.schema.fields[i].name]

\* The document of a successful decode has the field names as its keys, one
\* entry for each field.
EntryPerField ==
    /\ result.val.k = "obj"
    /\ DOMAIN result.val.v = { FieldNames[i] : i \in 1..Len(FieldNames) }
    /\ Cardinality(DOMAIN result.val.v) = Len(FieldNames)

\* C14: a successful decode(schema) returns a document with exactly one entry
\* per field of the schema, keyed by the field's name, and the entries appear
\* in the schema's field order (the wire order).
C14_EntriesInFieldOrder ==
    DecodedOk =>
        /\ EntryPerField
        /\ \A build \in MapBuilds : map_iter(build, FieldNames) = FieldNames

\* One entry per field, keyed by its name; in field order when the map
\* preserves insertion order, in key order otherwise.
EntriesByBuild ==
    DecodedOk =>
        /\ EntryPerField
        /\ map_iter("IndexMap", FieldNames) = FieldNames
        /\ LET sorted == map_iter("BTreeMap", FieldNames)
           IN  /\ Len(sorted) = Len(FieldNames)
               /\ { sorted[i] : i \in 1..Len(sorted) } = DOMAIN result.val.v
               /\ \A i \in 1..(Len(sorted) - 1) : str_less(sorted[i], sorted[i + 1], 1)

\* A time stamp decoded: sec is read first, nanosec is the first entry.
EntriesInKeyOrder ==
    /\ DecodedOk
    /\ SchemaIs("builtin_interfaces/msg/Time")
    /\ FieldNames = <<"sec", "nanosec">>
    /\ map_iter("BTreeMap", FieldNames) = <<"nanosec", "sec">>

\* ------------------------------------------------------------------------
\* The built-in time types
\* ------------------------------------------------------------------------

\* {sec: int32, nanosec: uint32} of the j-th and the next read: two 4-byte
\* reads, each at a multiple of 4.
TimeDocAt(j) ==
    JObj([n \in {"sec", "nanosec"} |->
            IF n = "sec" THEN JNum("sint", decoder.reads[j].val)
            ELSE JNum("uint", decoder.reads[j + 1].val)])

TimeReadsAt(j) ==
    /\ j + 1 <= Len(decoder.reads)
    /\ \A k \in {j, j + 1} : decoder.reads[k].size = 4 /\ decoder.reads[k].start % 4 = 0
    /\ decoder.reads[j + 1].start = decoder.reads[j].after

\* Every nested type of the schema is a built-in time type.
TimeOnly(schema) ==
    \A i \in 1..Len(schema.fields) :
        type_name(schema.fields[i]) \in TimeTypes \cup FixedSizeTypes

\* A field, the elements of a sequence and the element of an array of the
\* time types are each {sec, nanosec}, read as int32 and uint32.
TimeValues ==
    /\ (DecodedOk /\ SchemaIs("custom/msg/Stamped")) =>
          /\ Len(decoder.reads) = 3
          /\ TimeReadsAt(2)
          /\ result.val.v["stamp"] = TimeDocAt(2)
    /\ (DecodedOk /\ SchemaIs("custom/msg/Spans")) =>
          LET L == as_usize(decoder.reads[1].val)
          IN  /\ Len(decoder.reads) = 1 + 2 * L + 2
              /\ Len(result.val.v["rest"].v) = L
              /\ \A m \in 1..L :
                    /\ TimeReadsAt(2 * m)
                    /\ result.val.v["rest"].v[m] = TimeDocAt(2 * m)
              /\ TimeReadsAt(2 * L + 2)
              /\ result.val.v["first"] = JArr(<< TimeDocAt(2 * L + 2) >>)

\* The resolver is never asked for a time type, and never resolved one.
TimeNeverResolved ==
    (lastOp.op # "init" /\ result.tag # "Panic") =>
        /\ \A i \in 1..Len(decoder.lookups) : decoder.lookups[i].name \notin TimeTypes
        /\ DOMAIN decoder.resolved \cap TimeTypes = {}

\* C18: a field, or an array or sequence element, whose type is the built-in
\* time-point or time-span type is decoded as exactly {sec: int32, nanosec:
\* uint32}; the resolver is not called and the schema cache is neither read
\* nor changed, whatever definition files exist for those types (a definition
\* of the time-point type with other fields is installed, none of the
\* time-span type).
C18_BuiltinTimeTypes ==
    /\ [](TimeValues /\ TimeNeverResolved)
    /\ [][(lastOp'.op = "decode" /\ TimeOnly(lastOp'.schema)) =>
              /\ decoder'.cache = decoder.cache
              /\ decoder'.lookups = <<>>
              /\ decoder'.resolved = decoder.resolved]_vars

\* One time span in a sequence and one time point in an array were decoded,
\* while a definition file of the time-point type is installed.
C18_Witness ==
    /\ DecodedOk
    /\ SchemaIs("custom/msg/Spans")
    /\ Len(result.val.v["rest"].v) = 1
    /\ Len(decoder.reads) = 5
    /\ exists(world, "/ros/share/builtin_interfaces/msg/Time.idl")

\* ------------------------------------------------------------------------
\* The schema cache over the life of a decoder
\* ------------------------------------------------------------------------

HasCache(dec) == "cache" \in DOMAIN dec

\* The names the decode just made has had resolved.
Found(dec) == { dec.lookups[i].name : i \in { k \in 1..Len(dec.lookups) : dec.lookups[k].found } }

\* No name has been resolved to a schema more than once since the decoder was
\* made, and what was resolved is cached.
ResolvedOnce ==
    HasCache(decoder) =>
        \A n \in DOMAIN decoder.resolved :
            /\ decoder.resolved[n] = 1
            /\ n \in DOMAIN decoder.cache

\* A call on an existing decoder keeps every entry as it is; it adds an entry
\* only in a decode, for a nested type name that was looked up while not
\* cached and was resolved, and the entry is the schema the resolver returned.
CacheStep ==
    (HasCache(decoder) /\ HasCache(decoder')) =>
        /\ \A n \in DOMAIN decoder.cache :
              n \in DOMAIN decoder'.cache /\ decoder'.cache[n] = decoder.cache[n]
        /\ (DOMAIN decoder'.cache # DOMAIN decoder.cache) => lastOp'.op = "decode"
        /\ lastOp'.op = "decode" =>
              /\ DOMAIN decoder'.cache \ DOMAIN decoder.cache = Found(decoder')
              /\ \A i \in 1..Len(decoder'.lookups) :
                    /\ decoder'.lookups[i].name \notin DOMAIN decoder.cache
                    /\ \A j \in 1..(i - 1) :
                          decoder'.lookups[j].found =>
                              decoder'.lookups[j].name # decoder'.lookups[i].name
              /\ \A n \in Found(decoder') : Ok(decoder'.cache[n]) = try_from(n)

\* C19: over any sequence of decode and reset calls on one decoder, a cache
\* entry is added only when a nested type name is looked up and is not yet
\* cached, an entry once present is never removed or replaced, and the
\* resolver is invoked at most once per successfully resolved type name for
\* the lifetime of the decoder.
C19_CacheGrowsOnMissOnly ==
    /\ []ResolvedOnce
    /\ [][CacheStep]_vars

\* A nested message is decoded again after a reset: its schema, resolved
\* once by an earlier decode, is taken from the cache.
C19_Witness ==
    /\ DecodedOk
    /\ lastOp.via = "reset"
    /\ SchemaIs("pkg/msg/Outer")
    /\ decoder.lookups = <<>>
    /\ "pkg/msg/Inner" \in DOMAIN decoder.cache
    /\ decoder.resolved = [n \in {"pkg/msg/Inner"} |-> 1]

\* ------------------------------------------------------------------------
\* A nested type that does not resolve
\* ------------------------------------------------------------------------

\* The resolver calls of the decode that did not return a schema.
NotFound == { i \in 1..Len(decoder.lookups) : ~decoder.lookups[i].found }

\* C20: when a nested type name cannot be resolved during a decode, the decode
\* fails at the first such lookup with the resolver's schema-not-found error:
\* nothing is read or looked up after it, no document is returned (the fields
\* decoded before it are dropped), and the cache gets no entry for the name.
C20_UnresolvedNestedType ==
    /\ (Decoded /\ NotFound # {}) =>
          /\ NotFound = { Len(decoder.lookups) }
          /\ LET miss == decoder.lookups[Len(decoder.lookups)]
             IN  /\ Len(decoder.reads) = miss.reads
                 /\ result = try_from(miss.name)
                 /\ result = Err("IdlNotFound")
                 /\ miss.name \notin DOMAIN decoder.cache
                 /\ miss.name \notin DOMAIN decoder.resolved
    /\ (Decoded /\ SchemaIs("custom/msg/Broken") /\ Len(Body) >= 1) =>
          /\ result = Err("IdlNotFound")
          /\ Len(decoder.reads) = 1
          /\ decoder.lookups = << LookupEvent("pkg/msg/Missing", FALSE, 1) >>
    /\ (Decoded /\ IsOk(result)) => NotFound = {}

\* The field before the unresolved one was read, then the decode failed; the
\* decoder had resolved and cached another nested type before.
C20_Witness ==
    /\ Decoded
    /\ SchemaIs("custom/msg/Broken")
    /\ result = Err("IdlNotFound")
    /\ Len(decoder.reads) = 1
    /\ DOMAIN decoder.cache = {"pkg/msg/Inner"}

\* ------------------------------------------------------------------------
\* Bag readers: Db3Reader (rospeek-db3), McapReader (rospeek-mcap) and the
\* provided methods of BagReader (rospeek-core/src/reader.rs)
\* ------------------------------------------------------------------------

RawMessage(timestamp, topic_id, data) ==
    [timestamp |-> timestamp, topic_id |-> topic_id, data |-> data]

\* A row of the topics table, or a channel of an MCAP file.
TopicRow(id, name, ty) == [id |-> id, name |-> name, type_name |-> ty]

\* A row of the messages table, or a message record of an MCAP file.
MessageRow(topic_id, timestamp, data) ==
    [topic_id |-> topic_id, timestamp |-> timestamp, data |-> data]

\* A container: its topics and its messages in the order they were written.
Bag(topics, messages) == [topics |-> topics, messages |-> messages]

\* An opened reader.  scan is the order in which the storage engine visits
\* the stored messages: an MCAP stream yields them in file order, SQLite in
\* an order of its choosing.
Reader(backend, bag, scan) == [backend |-> backend, bag |-> bag, scan |-> scan]

\* ORDER BY timestamp ASC over the rows as the engine visits them: the row
\* put after the rows already placed that are not later than it.
RECURSIVE order_by_timestamp(_, _, _)
order_by_timestamp(rows, i, sorted) ==
    IF i > Len(rows) THEN sorted
    ELSE LET at == Cardinality({ k \in 1..Len(sorted) :
                                   sorted[k].timestamp <= rows[i].timestamp })
         IN  order_by_timestamp(rows, i + 1,
                 SubSeq(sorted, 1, at) \o <<rows[i]>> \o SubSeq(sorted, at + 1, Len(sorted)))

\* The stored messages in the order the engine visits them.
scanned(reader) == [i \in 1..Len(reader.scan) |-> reader.bag.messages[reader.scan[i]]]

\* Mutant of db3_read_messages: the rows are returned as visited, unordered.
db3_read_messages_unordered(reader, topic_name) ==
    LET named == SelectSeq(reader.bag.topics, LAMBDA t : t.name = topic_name)
    IN  IF named = << >> THEN Err("TopicNotFound")
        ELSE LET topic_id == named[1].id
                 rows == SelectSeq(scanned(reader), LAMBDA m : m.topic_id = topic_id)
             IN  Ok([i \in 1..Len(rows) |->
                        RawMessage(rows[i].timestamp, topic_id, rows[i].data)])

\* Db3Reader::read_messages
db3_read_messages(reader, topic_name) ==
    LET named == SelectSeq(reader.bag.topics, LAMBDA t : t.name = topic_name)
    IN  IF named = << >> THEN Err("TopicNotFound")
        ELSE LET topic_id == named[1].id
                 rows == order_by_timestamp(
                             SelectSeq(scanned(reader), LAMBDA m : m.topic_id = topic_id),
                             1, << >>)
             IN  Ok([i \in 1..Len(rows) |->
                        RawMessage(rows[i].timestamp, topic_id, rows[i].data)])

\* message.channel.topic of a message record.
channel_topic(reader, m) ==
    (CHOOSE t \in { reader.bag.topics[i] : i \in 1..Len(reader.bag.topics) } :
        t.id = m.topic_id).name

\* McapReader::read_messages
mcap_read_messages(reader, topic_name) ==
    LET messages == SelectSeq(scanned(reader),
                              LAMBDA m : channel_topic(reader, m) = topic_name)
    IN  Ok([i \in 1..Len(messages) |->
               RawMessage(messages[i].timestamp, messages[i].topic_id, messages[i].data)])

\* BagReader::read_messages of a Box<dyn BagReader>
read_messages(reader, topic_name) ==
    IF reader.backend = "Sqlite3" THEN db3_read_messages(reader, topic_name)
    ELSE mcap_read_messages(reader, topic_name)

\* Mutant of read_messages_since: a message at the bound itself is left out.
read_messages_after(reader, topic_name, since) ==
    LET messages == read_messages(reader, topic_name)
    IN  IF IsOk(messages)
        THEN Ok(SelectSeq(messages.val, LAMBDA msg : msg.timestamp > since))
        ELSE messages

read_messages_since(reader, topic_name, since) ==
    LET messages == read_messages(reader, topic_name)
    IN  IF IsOk(messages)
        THEN Ok(SelectSeq(messages.val, LAMBDA msg : msg.timestamp >= since))
        ELSE messages

read_messages_until(reader, topic_name, until) ==
    LET messages == read_messages(reader, topic_name)
    IN  IF IsOk(messages)
        THEN Ok(SelectSeq(messages.val, LAMBDA msg : msg.timestamp <= until))
        ELSE messages

read_messages_between(reader, topic_name, since, until) ==
    LET messages == read_messages(reader, topic_name)
    IN  IF IsOk(messages)
        THEN Ok(SelectSeq(messages.val,
                          LAMBDA msg : msg.timestamp >= since /\ msg.timestamp <= until))
        ELSE messages

\* ---- inputs ----

MaxStored == 3

Stamps == { 1, 2 }

TimeBounds == { 0, 1, 2, 3 }

StoredTopics == << TopicRow(1, "/a", "pkg/msg/Outer"), TopicRow(2, "/b", "pkg/msg/Inner") >>

ReadTopics == { "/a", "/b", "/none" }

\* The k-th message written holds the byte k after its header.
StoredData(k) == <<0, 1, 0, 0, k>>

Bags ==
    UNION { { Bag(StoredTopics,
                  [k \in 1..n |-> MessageRow(of[k][1], of[k][2], StoredData(k))]) :
                of \in [1..n -> {1, 2} \X Stamps] } : n \in 0..MaxStored }

\* The orders in which a backend's engine may visit n stored messages.
Scans(backend, n) ==
    IF backend = "Mcap" THEN { [i \in 1..n |-> i] }
    ELSE { [i \in 1..n |-> i], [i \in 1..n |-> n + 1 - i] }

BagCall(op, reader, topic, since, until, out) ==
    [op |-> op, reader |-> reader, topic |-> topic, since |-> since, until |-> until,
     out |-> out]

\* create_reader(bag): a Db3Reader or a McapReader on a container.
OpenBag ==
    /\ lastOp.op = "init"
    /\ bagOp = NoBagOp
    /\ \E backend \in {"Sqlite3", "Mcap"}, bag \in Bags :
          \E scan \in Scans(backend, Len(bag.messages)) :
              bagOp' = BagCall("open", Reader(backend, bag, scan), "", 0, 0, Ok(<< >>))
    /\ UNCHANGED <<decVars, rt, batch, csv, world, schemaOp, nest, gui>>

ReadMessages ==
    /\ bagOp.op = "open"
    /\ \E topic \in ReadTopics :
          bagOp' = BagCall("read_messages", bagOp.reader, topic, 0, 0,
                           read_messages(bagOp.reader, topic))
    /\ UNCHANGED <<decVars, rt, batch, csv, world, schemaOp, nest, gui>>

ReadMessagesSince ==
    /\ bagOp.op = "open"
    /\ \E topic \in ReadTopics, since \in TimeBounds :
          bagOp' = BagCall("read_messages_since", bagOp.reader, topic, since, 0,
                           read_messages_since(bagOp.reader, topic, since))
    /\ UNCHANGED <<decVars, rt, batch, csv, world, schemaOp, nest, gui>>

ReadMessagesUntil ==
    /\ bagOp.op = "open"
    /\ \E topic \in ReadTopics, until \in TimeBounds :
          bagOp' = BagCall("read_messages_until", bagOp.reader, topic, 0, until,
                           read_messages_until(bagOp.reader, topic, until))
    /\ UNCHANGED <<decVars, rt, batch, csv, world, schemaOp, nest, gui>>

ReadMessagesBetween ==
    /\ bagOp.op = "open"
    /\ \E topic \in ReadTopics, since \in TimeBounds, until \in TimeBounds :
          bagOp' = BagCall("read_messages_between", bagOp.reader, topic, since, until,
                           read_messages_between(bagOp.reader, topic, since, until))
    /\ UNCHANGED <<decVars, rt, batch, csv, world, schemaOp, nest, gui>>

NextReader ==
    OpenBag \/ ReadMessages \/ ReadMessagesSince \/ ReadMessagesUntil \/ ReadMessagesBetween

SpecReader == Init /\ [][NextReader]_vars

\* ------------------------------------------------------------------------
\* Properties of the bag readers
\* ------------------------------------------------------------------------

ReaderCalled(op) == bagOp.op = op

\* The names of the container's topics.
StoredNames == { bagOp.reader.bag.topics[i].name : i \in 1..Len(bagOp.reader.bag.topics) }

\* The positions, in write order, of the stored messages of the named topic.
StoredOf(name) ==
    { k \in 1..Len(bagOp.reader.bag.messages) :
        \E i \in 1..Len(bagOp.reader.bag.topics) :
            /\ bagOp.reader.bag.topics[i].name = name
            /\ bagOp.reader.bag.topics[i].id = bagOp.reader.bag.messages[k].topic_id }

\* The list holds each stored message of the topic once and nothing else,
\* with its timestamp and its bytes.
AllAndOnly(list, name) ==
    /\ Len(list) = Cardinality(StoredOf(name))
    /\ \A k \in StoredOf(name) :
          \E i \in 1..Len(list) :
              /\ list[i].data = bagOp.reader.bag.messages[k].data
              /\ list[i].timestamp = bagOp.reader.bag.messages[k].timestamp
              /\ list[i].topic_id = bagOp.reader.bag.messages[k].topic_id

AscendingTimestamps(list) ==
    \A i \in 1..Len(list) : \A j \in (i + 1)..Len(list) :
        list[i].timestamp <= list[j].timestamp

\* C21: for both backends read_messages(topic) returns all and only the
\* stored messages of the named topic, payload bytes unchanged, ordered by
\* timestamp ascending.
C21_ReadMessagesOrdered ==
    (ReaderCalled("read_messages") /\ bagOp.topic \in StoredNames) =>
        /\ IsOk(bagOp.out)
        /\ AllAndOnly(bagOp.out.val, bagOp.topic)
        /\ AscendingTimestamps(bagOp.out.val)

\* All and only the topic's messages from both backends; in timestamp order
\* from Db3Reader, in the order of the file from McapReader.
ReadMessagesByBackend ==
    (ReaderCalled("read_messages") /\ bagOp.topic \in StoredNames) =>
        /\ IsOk(bagOp.out)
        /\ AllAndOnly(bagOp.out.val, bagOp.topic)
        /\ bagOp.reader.backend = "Sqlite3" => AscendingTimestamps(bagOp.out.val)
        /\ bagOp.reader.backend = "Mcap" =>
              \A i \in 1..Len(bagOp.out.val) : \A j \in (i + 1)..Len(bagOp.out.val) :
                  bagOp.out.val[i].data[5] < bagOp.out.val[j].data[5]

\* An MCAP file whose second message of a topic is earlier than its first
\* was read: the later message comes first.
McapOutOfOrder ==
    /\ ReaderCalled("read_messages")
    /\ bagOp.reader.backend = "Mcap"
    /\ bagOp.topic = "/a"
    /\ IsOk(bagOp.out)
    /\ Len(bagOp.out.val) = 2
    /\ bagOp.out.val[1].timestamp = 2
    /\ bagOp.out.val[2].timestamp = 1

\* What read_messages gives for the reader and topic of the call.
BaseMessages == read_messages(bagOp.reader, bagOp.topic)

\* The timestamp lies within the bounds the call was given.
WithinBounds(timestamp) ==
    CASE ReaderCalled("read_messages_since") -> timestamp >= bagOp.since
      [] ReaderCalled("read_messages_until") -> timestamp <= bagOp.until
      [] ReaderCalled("read_messages_between") ->
             timestamp >= bagOp.since /\ timestamp <= bagOp.until
      [] OTHER -> TRUE

\* The positions in the base list of the messages within the bounds.
Kept(base) == { i \in 1..Len(base) : WithinBounds(base[i].timestamp) }

\* The j-th of the kept positions, counted from the front.
KeptAt(base, j) == CHOOSE i \in Kept(base) : Cardinality({ k \in Kept(base) : k <= i }) = j

Range(list) == { list[i] : i \in 1..Len(list) }

\* C22: read_messages_since(t, s), read_messages_until(t, u) and
\* read_messages_between(t, s, u) return exactly the messages of
\* read_messages(t) with timestamp >= s, <= u, and both (bounds inclusive), in
\* the relative order of read_messages(t); between(s, u) holds the messages
\* common to since(s) and until(u).
C22_InclusiveBounds ==
    (\/ ReaderCalled("read_messages_since")
     \/ ReaderCalled("read_messages_until")
     \/ ReaderCalled("read_messages_between")) =>
        IF ~IsOk(BaseMessages) THEN bagOp.out = BaseMessages
        ELSE /\ IsOk(bagOp.out)
             /\ Len(bagOp.out.val) = Cardinality(Kept(BaseMessages.val))
             /\ \A j \in 1..Len(bagOp.out.val) :
                   bagOp.out.val[j] = BaseMessages.val[KeptAt(BaseMessages.val, j)]
             /\ ReaderCalled("read_messages_between") =>
                   Range(bagOp.out.val) =
                       Range(read_messages_since(bagOp.reader, bagOp.topic, bagOp.since).val)
                         \cap Range(read_messages_until(bagOp.reader, bagOp.topic,
                                                        bagOp.until).val)

\* Of three messages the two at the bound itself were kept, the earlier one
\* dropped.
C22_Witness ==
    /\ ReaderCalled("read_messages_since")
    /\ bagOp.since = 2
    /\ IsOk(bagOp.out)
    /\ Len(BaseMessages.val) = 3
    /\ Len(bagOp.out.val) = 2
    /\ \A j \in 1..2 : bagOp.out.val[j].timestamp = 2

\* The call named a topic the container does not hold.
AbsentTopicRead == ReaderCalled("read_messages") /\ bagOp.topic \notin StoredNames

\* C23: read_messages for a topic absent from the container fails with
\* TopicNotFound on either backend, never returning an empty result (the
\* try_decode_json half, TopicNotFound before any schema is resolved or any
\* message read, is what TryDecodeJson does for a topic without a row).
C23_AbsentTopicFails ==
    AbsentTopicRead => bagOp.out = Err("TopicNotFound")

\* What the two readers do with an absent topic: the SQLite reader fails with
\* TopicNotFound, the MCAP reader returns an empty list.
AbsentTopicByBackend ==
    AbsentTopicRead =>
        bagOp.out = IF bagOp.reader.backend = "Sqlite3"
                    THEN Err("TopicNotFound") ELSE Ok(<< >>)

\* An MCAP file with messages was asked for a topic it does not hold.
McapAbsentTopicEmpty ==
    /\ AbsentTopicRead
    /\ bagOp.reader.backend = "Mcap"
    /\ Len(bagOp.reader.bag.messages) > 0
    /\ bagOp.out = Ok(<< >>)

\* ------------------------------------------------------------------------
\* The CLI's Dump command in CSV format: the documents of try_decode_json
\* written to a file, one record per line
\* ------------------------------------------------------------------------

\* csv::Writer::write_record on a writer built with the defaults: records of
\* one length only. A record of another length than the first is refused;
\* whether its fields reach the file before the refusal is the writer's
\* business (kept).
write_record(file, record, kept) ==
    IF file # << >> /\ Len(record) # Len(file[1])
    THEN [res |-> Err("Other"), file |-> IF kept THEN Append(file, record) ELSE file]
    ELSE [res |-> Ok(<< >>), file |-> Append(file, record)]

\* The loop of the Csv arm from the i-th result on: the first result gives
\* the header, every result its own values in the order of its own keys.
RECURSIVE dump_csv(_, _, _, _)
dump_csv(results, i, file, kept) ==
    IF i > Len(results) THEN [res |-> Ok(<< >>), file |-> file]
    ELSE IF results[i].k # "obj" THEN dump_csv(results, i + 1, file, kept)
    ELSE LET row == flatten_json(results[i].v)
         IN  IF ~IsOk(row) THEN [res |-> row, file |-> file]
             ELSE LET keys == iter(DOMAIN row.val)
                      header == IF i = 1 THEN write_record(file, keys, kept)
                                ELSE [res |-> Ok(<< >>), file |-> file]
                      value_strings == [j \in 1..Len(keys) |-> to_string(row.val[keys[j]])]
                  IN  IF ~IsOk(header.res) THEN header
                      ELSE LET written == write_record(header.file, value_strings, kept)
                           IN  IF ~IsOk(written.res) THEN written
                               ELSE dump_csv(results, i + 1, written.file, kept)

\* Commands::Dump with Format::Csv, after try_decode_json returned json: an
\* error ends the command before the file is created.
DumpCsv ==
    /\ csv = NoCsv
    /\ \E json \in JsonResults, kept \in BOOLEAN :
           csv' = [phase |-> "dumped", json |-> json,
                   result |-> IF IsOk(json) THEN dump_csv(json.val, 1, << >>, kept)
                              ELSE [res |-> json, file |-> << >>]]
    /\ UNCHANGED <<decVars, rt, batch, world, schemaOp, bagOp, nest, gui>>

NextDump == DumpCsv

SpecDump == Init /\ [][NextDump]_vars

\* The command has run on a list of at least one document.
Dumped == csv.phase = "dumped" /\ IsOk(csv.json) /\ csv.json.val # << >>

\* The flattened keys of all documents of the list.
AllKeys == UNION { DOMAIN flatten_json(csv.json.val[k].v).val : k \in 1..Len(csv.json.val) }

\* C24: the file written by Dump in CSV format has a header row equal to the
\* flattened column set of the whole document list, and every data row has
\* one cell per header column.
C24_DumpHeaderIsUnion ==
    Dumped =>
        /\ csv.result.file # << >>
        /\ Range(csv.result.file[1]) = AllKeys
        /\ \A r \in 2..Len(csv.result.file) :
              Len(csv.result.file[r]) = Len(csv.result.file[1])

\* What the command does: the header is the flattened keys of the first
\* document; each document up to the first with another number of keys has a
\* row of its own values in the order of its own keys, and that first
\* document of another length ends the command with an error.
DumpHeaderOfFirstDocument ==
    Dumped =>
        LET keysOf(k) == iter(DOMAIN flatten_json(csv.json.val[k].v).val)
            odd == { k \in 1..Len(csv.json.val) : Len(keysOf(k)) # Len(keysOf(1)) }
            file == csv.result.file
        IN  /\ file[1] = keysOf(1)
            /\ IsOk(csv.result.res) <=> odd = {}
            /\ \A k \in 1..Len(csv.json.val) :
                  (\A o \in odd : k < o) =>
                      /\ Len(file) >= k + 1
                      /\ file[k + 1] =
                            [j \in 1..Len(keysOf(k)) |->
                                to_string(flatten_json(csv.json.val[k].v).val[keysOf(k)[j]])]

\* Two messages of one type, the sequence of the second longer by one: the
\* header lacks the key q.1 and the command failed at the second row.
DumpFailedOnLongerSequence ==
    /\ Dumped
    /\ Len(csv.json.val) = 2
    /\ SeqLen(csv.json.val[1]) = 1 /\ SeqLen(csv.json.val[2]) = 2
    /\ KeyQ(1) \in AllKeys \ Range(csv.result.file[1])
    /\ ~IsOk(csv.result.res)

\* A document {id, s} after a document {id, q} with one element: the command
\* succeeded with the value of s in the column headed q.0.
DumpMisaligned ==
    /\ Dumped
    /\ IsOk(csv.result.res)
    /\ Len(csv.result.file) = 3
    /\ csv.result.file[1] = <<NameBytes["id"], KeyQ(0)>>
    /\ csv.result.file[3][2] = <<34, 97, 34>>

\* C25: in the result (columns, rows) of try_decode_csv, for every order of
\* the documents, every row has exactly as many cells as the returned column
\* set, and cell j of a row holds its document's value for the j-th column of
\* the returned (sorted) column set, or is empty when the document lacks it.
C25_RowsOverReturnedColumns ==
    CsvReturned =>
        /\ IsOk(csv.result)
        /\ Len(csv.result.val.rows) = Len(csv.json.val)
        /\ \A i \in 1..Len(csv.json.val) :
              LET flat == flatten_json(csv.json.val[i].v).val
                  cols == iter(csv.result.val.columns)
                  row == csv.result.val.rows[i]
              IN  /\ Len(row) = Len(cols)
                  /\ \A j \in 1..Len(cols) :
                        row[j] = IF cols[j] \in DOMAIN flat THEN to_string(flat[cols[j]])
                                 ELSE <<>>

\* The document {id, s} came before a document {id, q} with one element: the
\* returned columns are id, q.0, s, and the first row has two cells, the text
\* of s standing at the place of q.0.
CsvRowShortAndShifted ==
    /\ CsvReturned
    /\ IsOk(csv.result)
    /\ Len(csv.json.val) = 2
    /\ iter(csv.result.val.columns) = <<NameBytes["id"], KeyQ(0), NameBytes["s"]>>
    /\ Len(csv.result.val.rows[1]) = 2
    /\ csv.result.val.rows[1][2] = <<34, 97, 34>>
    /\ Len(csv.result.val.rows[2]) = 3

\* ------------------------------------------------------------------------
\* A reused decoder against a fresh one
\* ------------------------------------------------------------------------

\* The decode just made was reset(data).decode(schema) on an existing decoder.
DecodedAfterReset == Decoded /\ lastOp.via = "reset"

\* What a decoder that has decoded nothing returns for the same payload and
\* schema, with the same resolver.
FreshResult == decode(new(lastOp.data).dec, lastOp.schema).res

\* C26: the result of decoder.reset(data).decode(schema) on a reused decoder
\* equals the result of decoding the same data with a decoder that has
\* decoded nothing before, whatever the reused decoder decoded earlier and
\* whether those decodes succeeded or failed part-way.
C26_ReusedEqualsFresh ==
    DecodedAfterReset => result = FreshResult

\* A reused decoder decoded two nested items without asking the resolver, the
\* nested schema being in its cache from an earlier decode; a fresh decoder
\* has to resolve it.
C26_Witness ==
    /\ DecodedAfterReset
    /\ IsOk(result)
    /\ lastOp.schema.type_name = "custom/msg/Items"
    /\ decoder.lookups = << >>
    /\ "pkg/msg/Inner" \in DOMAIN decoder.resolved
    /\ decode(new(lastOp.data).dec, lastOp.schema).dec.lookups # << >>

\* ------------------------------------------------------------------------
\* decode followed call by call: one step is one turn of a loop of decode or
\* decode_iterable, the call stack being the frames of the calls in progress
\* ------------------------------------------------------------------------

\* Frames the stack of the decoding thread has room for.
MaxStack == 16

\* Definition files with types that refer back to themselves: Tree through a
\* sequence, Node through a plain field, Ring through an array, Ping and Pong
\* through each other.
Recursive ==
    Environment([v \in {"AMENT_PREFIX_PATH"} |-> "/ros"],
          [p \in { "/ros/share/pkg/msg/Inner.idl", "/ros/share/pkg/msg/Outer.idl",
                   "/ros/share/pkg/msg/Tree.idl", "/ros/share/pkg/msg/Node.idl",
                   "/ros/share/pkg/msg/Ring.idl", "/ros/share/pkg/msg/Ping.idl",
                   "/ros/share/pkg/msg/Pong.idl" } |->
              CASE p = "/ros/share/pkg/msg/Inner.idl" ->
                       File("struct Inner {\n  boolean x;\n  uint16 y;\n};\n")
                [] p = "/ros/share/pkg/msg/Outer.idl" ->
                       File("struct Outer {\n  pkg::msg::Inner inner;\n  uint8 tail;\n};\n")
                [] p = "/ros/share/pkg/msg/Tree.idl" ->
                       File("struct Tree {\n  uint8 v;\n  sequence<pkg::msg::Tree> kids;\n};\n")
                [] p = "/ros/share/pkg/msg/Node.idl" ->
                       File("struct Node {\n  pkg::msg::Node next;\n  uint8 v;\n};\n")
                [] p = "/ros/share/pkg/msg/Ring.idl" ->
                       File("struct Ring {\n  pkg::msg::Ring__1 r;\n  uint8 v;\n};\n")
                [] p = "/ros/share/pkg/msg/Ping.idl" ->
                       File("struct Ping {\n  pkg::msg::Pong pong;\n};\n")
                [] OTHER ->
                       File("struct Pong {\n  sequence<pkg::msg::Ping> back;\n};\n")])

\* The types a decode is started for.
NestTypes ==
    { "pkg/msg/Outer", "pkg/msg/Tree", "pkg/msg/Node", "pkg/msg/Ring", "pkg/msg/Ping",
      "pkg/msg/Pong", "pkg/msg/Missing" }

\* Little-endian payloads: empty, a leaf, a node with one child, a child cut
\* short, and sixteen bytes of nested lengths 1.
NestBodies ==
    { << >>,
      <<1, 0, 0, 0, 0, 0, 0, 0>>,
      <<1, 0, 0, 0, 1, 0, 0, 0, 2, 0, 0, 0, 0, 0, 0, 0>>,
      <<1, 0, 0, 0, 1, 0, 0, 0, 2>>,
      <<1, 0, 0, 0, 1, 0, 0, 0, 1, 0, 0, 0, 1, 0, 0, 0>>,
      <<0, 0, 0, 0>>,
      <<2, 0, 0, 0, 0, 0, 0, 0, 0, 0, 0, 0>> }

NestPayloads == { <<0, 1, 0, 0>> \o b : b \in NestBodies }

\* The type has no arm of its own in decode_primitive: it is decoded as a
\* nested structure.
is_nested(t) ==
    /\ t \notin { "boolean", "octet", "char", "float", "double", "int8", "uint8", "int16",
                  "uint16", "int32", "uint32", "int64", "uint64", "string" }
    /\ ~is_builtin_time(t)

\* A call of decode in progress: the fields, the next one, the object so far.
\* at: where the cursor stood when the call was made.
DecodeFrame(fields, at) ==
    [kind |-> "decode", fields |-> fields, i |-> 1, object |-> EmptyMap,
     field |-> MessageField("", Object("")), left |-> 0, items |-> << >>, at |-> at]

\* A call of decode_iterable in progress: the items still to decode and the
\* items so far.
IterFrame(field, length, at) ==
    [kind |-> "iter", fields |-> << >>, i |-> 1, object |-> EmptyMap,
     field |-> field, left |-> length, items |-> << >>, at |-> at]

\* The frame with the value of its current field or item taken in.
Taken(frame, value) ==
    IF frame.kind = "decode"
    THEN [frame EXCEPT !.object = MapInsert(@, frame.fields[frame.i].name, value),
                       !.i = @ + 1]
    ELSE [frame EXCEPT !.items = Append(@, value), !.left = @ - 1]

\* The ? operator: the error leaves every call in progress.
Failed(n, dec, res) ==
    [n EXCEPT !.phase = IF res.tag = "Err" THEN "err" ELSE "panicked",
              !.dec = dec, !.stack = << >>, !.result = res]

\* A call is made: with no room left on the stack the thread overflows it.
Entered(n, dec, frame) ==
    IF Len(n.stack) >= MaxStack
    THEN [n EXCEPT !.phase = "overflow", !.dec = dec]
    ELSE [n EXCEPT !.dec = dec, !.stack = Append(@, frame)]

\* The innermost call returns value to its caller.
Returned(n, value) ==
    LET rest == SubSeq(n.stack, 1, Len(n.stack) - 1)
    IN  IF rest = << >>
        THEN [n EXCEPT !.phase = "ok", !.stack = << >>, !.result = Ok(value)]
        ELSE [n EXCEPT !.stack = [rest EXCEPT ![Len(rest)] = Taken(@, value)]]

\* decode_primitive(field) from the innermost call: a nested type is resolved
\* and decoded by a call of decode, another type read in place.
decode_primitive_step(n, field) ==
    IF is_nested(type_name(field))
    THEN LET s == get_schema(n.dec, type_name(field))
         IN  IF IsOk(s.res) THEN Entered(n, s.dec, DecodeFrame(s.res.val.fields, s.dec.pos))
             ELSE Failed(n, s.dec, s.res)
    ELSE LET r == decode_primitive(n.dec, field)
         IN  IF IsOk(r.res)
             THEN [n EXCEPT !.dec = r.dec,
                            !.stack[Len(n.stack)] = Taken(@, r.res.val)]
             ELSE Failed(n, r.dec, r.res)

\* One turn of the loop of the innermost call.
decode_step(n) ==
    LET top == n.stack[Len(n.stack)]
    IN  IF top.kind = "decode"
        THEN IF top.i > Len(top.fields) THEN Returned(n, JObj(top.object))
             ELSE IF is_iterable(top.fields[top.i])
             THEN LET ft == top.fields[top.i].field_type
                      length == IF ft.kind = "Array" THEN Ret(n.dec, Ok(ft.len))
                                ELSE Try(decode_u32(n.dec),
                                         LAMBDA l : Ret(l.dec, Ok(as_usize(l.res.val))))
                  IN  IF IsOk(length.res)
                      THEN Entered(n, length.dec,
                                  IterFrame(top.fields[top.i], length.res.val, n.dec.pos))
                      ELSE Failed(n, length.dec, length.res)
             ELSE decode_primitive_step(n, top.fields[top.i])
        ELSE IF top.left = 0 THEN Returned(n, JArr(top.items))
             ELSE decode_primitive_step(n, top.field)

\* The definition files are installed.
InstallRecursive ==
    /\ lastOp.op = "init"
    /\ nest = NoNest
    /\ world = Installed
    /\ world' = Recursive
    /\ UNCHANGED <<decVars, rt, batch, csv, schemaOp, bagOp, nest, gui>>

\* MessageSchema::try_from(type), CdrDecoder::from_schema(&schema) and
\* decoder.reset(data).decode(&schema): the call of decode is made.
StartDecode ==
    /\ nest = NoNest
    /\ world = Recursive
    /\ \E data \in NestPayloads, name \in NestTypes :
           \E schema \in {try_from(name)} :
               nest' = IF IsOk(schema)
                       THEN [phase |-> "running", data |-> data, schema |-> schema.val,
                             dec |-> reset(from_schema(schema.val), data).dec,
                             stack |-> << DecodeFrame(schema.val.fields, 0) >>,
                             result |-> Ok(<< >>)]
                       ELSE [phase |-> "unresolved", data |-> data,
                             schema |-> MessageSchema(name, << >>),
                             dec |-> NoDecoder, stack |-> << >>, result |-> schema]
    /\ UNCHANGED <<decVars, rt, batch, csv, world, schemaOp, bagOp, gui>>

DecodeStep ==
    /\ nest.phase = "running"
    /\ nest' = decode_step(nest)
    /\ UNCHANGED <<decVars, rt, batch, csv, world, schemaOp, bagOp, gui>>

NextNested == InstallRecursive \/ StartDecode \/ DecodeStep

SpecNested == Init /\ [][NextNested]_vars

\* The thread that called decode keeps running until decode is left.
SpecNestedFair == SpecNested /\ WF_vars(DecodeStep)

\* decode has been left with a document or an error.
DecodeLeft == nest.phase \in {"ok", "err"}

\* C27: CdrDecoder::decode terminates with a document or an error for every
\* finite payload and every schema, including schemas whose nested object,
\* array or sequence types refer back to the type being decoded.
C27_DecodeTerminates == (nest.phase = "running") ~> DecodeLeft

\* The types whose decode consumes bytes between two calls of decode for the
\* same type, or makes no such call.
ConsumingTypes == { "pkg/msg/Outer", "pkg/msg/Tree", "pkg/msg/Pong", "pkg/msg/Ping" }

\* For these types decode is left with a document or an error, the same that
\* decode as a whole gives.
ConsumingTypesTerminate ==
    (nest.phase = "running" /\ nest.schema.type_name \in ConsumingTypes) ~>
        (DecodeLeft /\ nest.result = decode(reset(from_schema(nest.schema), nest.data).dec, nest.schema).res)

\* The stack runs out only in a decode that calls itself without reading a
\* byte: every call in progress was made at the same place of the payload.
OverflowWithoutProgress ==
    nest.phase = "overflow" =>
        /\ nest.schema.type_name \notin ConsumingTypes
        /\ \A k \in 2..Len(nest.stack) : nest.stack[k].at = nest.dec.pos

\* Node's first field is a Node: the stack is full of calls of decode for
\* Node, none of which has read a byte of the payload.
SelfReferenceOverflows ==
    /\ nest.phase = "overflow"
    /\ nest.schema.type_name = "pkg/msg/Node"
    /\ Len(nest.data) > HeaderLen
    /\ nest.dec.pos = 0
    /\ \A k \in 1..Len(nest.stack) : nest.stack[k].kind = "decode" /\ nest.stack[k].i = 1

\* ------------------------------------------------------------------------
\* The viewer (rospeek-gui): the application, its channels and its worker
\* threads.  A frame of update() is one step of the application; a worker
\* takes one command, or sends its first event, or leaves its loop, per step.
\* ------------------------------------------------------------------------

\* The inputs of the user in one run of the viewer: bags opened (or failed
\* to open), topics clicked, next pages asked for.
MaxInputs == 3

\* The limit of a page: bend.read_messages(&name, None, 200).
PageLimit == 200

LoadTopic(name) == [kind |-> "LoadTopic", name |-> name]

PageNext == [kind |-> "PageNext", name |-> ""]

TopicsEvent(topics) == [kind |-> "Topics", topics |-> topics, topic |-> "", msgs |-> << >>]

PageEvent(topic, msgs) == [kind |-> "Page", topics |-> << >>, topic |-> topic, msgs |-> msgs]

ErrorEvent(e) == [kind |-> "Error", topics |-> << >>, topic |-> e, msgs |-> << >>]

\* A pair of channels with the worker thread at their far ends: the commands
\* and events in flight, whether the command sender and the event receiver
\* still exist, the worker's backend (None for the idle worker of new) and
\* its place (start: before its first send, loop, exited).  sent, received,
\* emitted and applied record for the properties what went through.
Channels(bend, at) ==
    [cmds |-> << >>, events |-> << >>, tx_alive |-> TRUE, rx_alive |-> TRUE,
     bend |-> bend, at |-> at,
     sent |-> << >>, received |-> << >>, emitted |-> << >>, applied |-> 0]

\* Sender::send of a command: it joins the queue.
send_command(ch, cmd) == [ch EXCEPT !.cmds = Append(@, cmd), !.sent = Append(@, cmd)]

\* let _ = txe.send(event): the event joins the queue, or is lost when the
\* receiver has been dropped.
send_event(ch, ev) ==
    [ch EXCEPT !.events = IF ch.rx_alive THEN Append(@, ev) ELSE @,
               !.emitted = Append(@, ev)]

\* Vec::truncate.
truncate(list, limit) == IF Len(list) > limit THEN SubSeq(list, 1, limit) ELSE list

\* ReaderBackend::read_messages; fails: the storage cannot be read.
backend_read_messages(reader, topic, start_ns, limit, fails) ==
    LET messages == IF fails THEN Err("Other") ELSE read_messages(reader, topic)
    IN  IF ~IsOk(messages) THEN messages
        ELSE Ok(truncate(IF start_ns.tag = "Some"
                         THEN SelectSeq(messages.val,
                                        LAMBDA msg : msg.timestamp >= start_ns.val)
                         ELSE messages.val, limit))

\* Db3Reader::topics: the rows of the topics table by name (the bags of this
\* specification store them in that order).
backend_topics(reader) == Ok(reader.bag.topics)

\* Mutant of load_topic: a failed read sends nothing.
load_topic_silent(ch, name, fails) ==
    LET msgs == backend_read_messages(ch.bend.val, name, None, PageLimit, fails)
    IN  IF IsOk(msgs) THEN send_event(ch, PageEvent(name, msgs.val)) ELSE ch

\* The worker's arm for Command::LoadTopic.
load_topic(ch, name, fails) ==
    LET msgs == backend_read_messages(ch.bend.val, name, None, PageLimit, fails)
    IN  IF IsOk(msgs) THEN send_event(ch, PageEvent(name, msgs.val))
        ELSE send_event(ch, ErrorEvent(msgs.val))

\* One turn of a worker's loop on the command it received.
worker_turn(ch, cmd, fails) ==
    IF ch.bend.tag = "None" THEN send_event(ch, ErrorEvent("No bag opened"))
    ELSE IF cmd.kind = "LoadTopic" THEN load_topic(ch, cmd.name, fails)
    ELSE ch

\* RospeekApp::new.
new_app ==
    [phase |-> "running", backend |-> None, topics |-> << >>, current_schema |-> None,
     current_topic |-> None, current_page |-> 0, page |-> << >>, tx |-> 1, rx |-> 1,
     chan |-> << Channels(None, "loop") >>, shown |-> << >>, opens |-> 0]

\* One arm of the match in update().
apply_event(app, ev) ==
    CASE ev.kind = "Topics" -> [app EXCEPT !.topics = ev.topics]
      [] ev.kind = "Page" ->
            IF Some(ev.topic) = app.current_topic THEN [app EXCEPT !.page = ev.msgs] ELSE app
      [] OTHER -> app

RECURSIVE apply_events(_, _, _)
apply_events(app, events, i) ==
    IF i > Len(events) THEN app ELSE apply_events(apply_event(app, events[i]), events, i + 1)

\* while let Ok(ev) = self.rx.try_recv(): the events in the queue are applied.
try_recv_all(app) ==
    LET events == app.chan[app.rx].events
    IN  [apply_events(app, events, 1) EXCEPT
            !.chan[app.rx].events = << >>,
            !.chan[app.rx].applied = @ + Len(events)]

\* Mutant of open_ok: the old command sender is kept alive.
open_ok_keeps_sender(app, reader) ==
    LET topics == backend_topics(reader)
    IN  [app EXCEPT !.backend = Some(reader),
                    !.topics = IF IsOk(topics) THEN topics.val ELSE << >>,
                    !.current_schema = None, !.current_topic = None,
                    !.current_page = 0, !.page = << >>,
                    !.chan = Append([@ EXCEPT ![app.rx].rx_alive = FALSE,
                                              ![app.rx].events = << >>],
                                    Channels(Some(reader), "start")),
                    !.tx = Len(app.chan) + 1, !.rx = Len(app.chan) + 1,
                    !.opens = @ + 1]

\* open(), B::open(&path) being Ok: new channels and a worker bound to the
\* bag; the old sender and receiver are dropped when tx and rx are assigned.
open_ok(app, reader) ==
    LET topics == backend_topics(reader)
    IN  [app EXCEPT !.backend = Some(reader),
                    !.topics = IF IsOk(topics) THEN topics.val ELSE << >>,
                    !.current_schema = None, !.current_topic = None,
                    !.current_page = 0, !.page = << >>,
                    !.chan = Append([@ EXCEPT ![app.tx].tx_alive = FALSE,
                                              ![app.rx].rx_alive = FALSE,
                                              ![app.rx].events = << >>],
                                    Channels(Some(reader), "start")),
                    !.tx = Len(app.chan) + 1, !.rx = Len(app.chan) + 1,
                    !.opens = @ + 1]

\* open(), B::open(&path) being Err.
open_err(app) ==
    [app EXCEPT !.backend = None, !.topics = << >>, !.current_schema = None,
                !.current_topic = None, !.current_page = 0, !.opens = @ + 1]

\* Result::ok.
ok(r) == IF IsOk(r) THEN Some(r.val) ELSE None

\* ui_topics, the label of the i-th topic (counted from 1) being clicked.
clicked(app, i) ==
    [app EXCEPT !.current_schema = ok(try_from(app.topics[i].type_name)),
                !.current_topic = Some(app.topics[i].name),
                !.current_page = @ + (i - 1),
                !.chan[app.tx] = send_command(@, LoadTopic(app.topics[i].name))]

\* ui_timeline, the button for the next page being clicked.
page_next_clicked(app) == [app EXCEPT !.chan[app.tx] = send_command(@, PageNext)]

\* ui_center: with a topic and a schema, a row for each message of the page,
\* whose body is the message decoded with the current schema.
ui_center(app) ==
    [app EXCEPT !.shown =
        IF app.current_topic.tag = "Some" /\ app.current_schema.tag = "Some"
        THEN [idx \in 1..Len(app.page) |->
                 [topic |-> app.current_topic.val,
                  schema |-> app.current_schema.val.type_name,
                  topic_id |-> app.page[idx].topic_id,
                  body |-> decode(reset(from_schema(app.current_schema.val),
                                        app.page[idx].data).dec,
                                  app.current_schema.val).res]]
        ELSE << >>]

\* The bag the user opens: /a and /b with a message each.
ViewerBags ==
    { Reader("Sqlite3",
             Bag(StoredTopics, << MessageRow(1, 1, <<0, 1, 0, 0, 1, 0, 2, 0, 3>>),
                                  MessageRow(2, 2, <<0, 1, 0, 0, 1, 0, 7, 0>>) >>), <<1, 2>>) }

\* The commands sent so far, over all channels.
RECURSIVE CommandsUpTo(_, _)
CommandsUpTo(app, k) ==
    IF k = 0 THEN 0 ELSE Len(app.chan[k].sent) + CommandsUpTo(app, k - 1)

Commands(app) == CommandsUpTo(app, Len(app.chan))

Inputs(app) == app.opens + Commands(app)

AppNew ==
    /\ lastOp.op = "init"
    /\ gui = NoGui
    /\ gui' = new_app
    /\ UNCHANGED <<decVars, rt, batch, csv, world, schemaOp, bagOp, nest>>

\* A frame without input: the events are applied and the panels drawn.
Update ==
    /\ gui.phase = "running"
    /\ gui' = ui_center(try_recv_all(gui))
    /\ UNCHANGED <<decVars, rt, batch, csv, world, schemaOp, bagOp, nest>>

\* A frame in which "Open bag..." is clicked and a file picked.
UpdateOpen ==
    /\ gui.phase = "running"
    /\ Inputs(gui) < MaxInputs
    /\ \E reader \in ViewerBags, opened \in BOOLEAN :
           gui' = ui_center(IF opened THEN open_ok(try_recv_all(gui), reader)
                            ELSE open_err(try_recv_all(gui)))
    /\ UNCHANGED <<decVars, rt, batch, csv, world, schemaOp, bagOp, nest>>

\* A frame in which a topic's label is clicked.
UpdateTopicClicked ==
    /\ gui.phase = "running"
    /\ Inputs(gui) < MaxInputs
    /\ \E i \in 1..Len(try_recv_all(gui).topics) :
           gui' = ui_center(clicked(try_recv_all(gui), i))
    /\ UNCHANGED <<decVars, rt, batch, csv, world, schemaOp, bagOp, nest>>

\* A frame in which the button for the next page is clicked.
UpdatePageNext ==
    /\ gui.phase = "running"
    /\ Inputs(gui) < MaxInputs
    /\ gui' = page_next_clicked(ui_center(try_recv_all(gui)))
    /\ UNCHANGED <<decVars, rt, batch, csv, world, schemaOp, bagOp, nest>>

\* let _ = txe.send(Event::Topics(tmp_topics)), the first statement of a
\* worker bound to a bag.
WorkerSendTopics(w) ==
    /\ gui.phase = "running"
    /\ w <= Len(gui.chan)
    /\ gui.chan[w].at = "start"
    /\ gui' = [gui EXCEPT !.chan[w] =
                  [send_event(@, TopicsEvent(backend_topics(@.bend.val).val))
                      EXCEPT !.at = "loop"]]
    /\ UNCHANGED <<decVars, rt, batch, csv, world, schemaOp, bagOp, nest>>

\* rxc.recv() returns a command and the body of the loop runs.
WorkerRecv(w) ==
    /\ gui.phase = "running"
    /\ w <= Len(gui.chan)
    /\ gui.chan[w].at = "loop"
    /\ gui.chan[w].cmds # << >>
    /\ \E fails \in BOOLEAN :
           gui' = [gui EXCEPT !.chan[w] =
                      worker_turn([@ EXCEPT !.cmds = Tail(@),
                                            !.received = Append(@, gui.chan[w].cmds[1])],
                                  gui.chan[w].cmds[1], fails)]
    /\ UNCHANGED <<decVars, rt, batch, csv, world, schemaOp, bagOp, nest>>

\* rxc.recv() fails, the queue being empty and the sender dropped: the loop
\* and the thread end.
WorkerExit(w) ==
    /\ gui.phase = "running"
    /\ w <= Len(gui.chan)
    /\ gui.chan[w].at = "loop"
    /\ gui.chan[w].cmds = << >>
    /\ ~gui.chan[w].tx_alive
    /\ gui' = [gui EXCEPT !.chan[w].at = "exited"]
    /\ UNCHANGED <<decVars, rt, batch, csv, world, schemaOp, bagOp, nest>>

Workers == 1..(MaxInputs + 1)

WorkerStep(w) == WorkerSendTopics(w) \/ WorkerRecv(w) \/ WorkerExit(w)

NextViewer ==
    \/ AppNew
    \/ Update
    \/ UpdateOpen
    \/ UpdateTopicClicked
    \/ UpdatePageNext
    \/ \E w \in Workers : WorkerSendTopics(w)
    \/ \E w \in Workers : WorkerRecv(w)
    \/ \E w \in Workers : WorkerExit(w)

SpecViewer == Init /\ [][NextViewer]_vars

\* Worker threads that can run are scheduled: some worker that can take a
\* step takes one.
SpecViewerFair == SpecViewer /\ WF_vars(\E w \in Workers : WorkerStep(w))

\* ------------------------------------------------------------------------
\* Properties of the viewer
\* ------------------------------------------------------------------------

ViewerRunning == gui.phase = "running"

\* The id of the topic the viewer lists under the name.
TopicId(name) ==
    (CHOOSE t \in { gui.topics[i] : i \in 1..Len(gui.topics) } : t.name = name).id

\* Every message of the page is a message of the current topic.
PageOfCurrentTopic ==
    (/\ ViewerRunning
     /\ gui.current_topic.tag = "Some"
     /\ gui.current_schema.tag = "Some"
     /\ gui.page # << >>) =>
        /\ \A i \in 1..Len(gui.page) :
              gui.page[i].topic_id = TopicId(gui.current_topic.val)
        /\ \A i \in 1..Len(gui.shown) :
              gui.shown[i].topic_id = TopicId(gui.shown[i].topic)

\* A frame whose queue holds no Page event for the current topic leaves the
\* page as it is (or empties it, when a bag is opened in the frame).
OtherPageIgnored ==
    (/\ ViewerRunning
     /\ gui'.phase = "running"
     /\ \A i \in 1..Len(gui.chan[gui.rx].events) :
           gui.chan[gui.rx].events[i].kind = "Page" =>
               Some(gui.chan[gui.rx].events[i].topic) # gui.current_topic) =>
        \/ gui'.page = gui.page
        \/ gui'.opens > gui.opens /\ gui'.page = << >>

\* C28: in every reachable state of the viewer, whenever a current topic and
\* schema are set and the page is non-empty, every message in the page
\* belongs to the current topic, so that no message is decoded and displayed
\* with another topic's schema; a Page event for a topic other than the
\* current one leaves the page unchanged.
C28_PageOfCurrentTopic == []PageOfCurrentTopic /\ [][OtherPageIgnored]_vars

\* What holds of the page: it is what one Page event carried, so its
\* messages are of one topic, and a Page event for another topic than the
\* current one does not change it.
PageOfOneTopic ==
    /\ [](ViewerRunning =>
            \A i, j \in 1..Len(gui.page) : gui.page[i].topic_id = gui.page[j].topic_id)
    /\ [][OtherPageIgnored]_vars

\* /b was clicked while the page held the message of /a: the frame shows the
\* message of /a under /b, decoded with the schema of /b into a document.
StalePageShown ==
    /\ ViewerRunning
    /\ gui.current_topic = Some("/b")
    /\ Len(gui.shown) = 1
    /\ gui.shown[1].topic_id = TopicId("/a")
    /\ gui.shown[1].schema = "pkg/msg/Inner"
    /\ IsOk(gui.shown[1].body)

\* The LoadTopic commands among the commands a worker received, in order.
Loads(ch) == SelectSeq(ch.received, LAMBDA cmd : cmd.kind = "LoadTopic")

\* The events a worker bound to a bag sent after its list of topics.
Answers(ch) == IF ch.at = "start" THEN << >> ELSE Tail(ch.emitted)

\* The worker received its commands in the order the viewer sent them, the
\* others still waiting.
ReceivedInOrder(ch) == ch.sent = ch.received \o ch.cmds

\* C29: every LoadTopic command received by the worker bound to an opened bag
\* produces exactly one event, a Page carrying that command's topic name or
\* an Error, and the events are emitted in the order the commands were sent;
\* a command received by the initial worker (no bag opened) produces exactly
\* one Error event.
C29_OneEventPerCommand ==
    ViewerRunning =>
        \A w \in 1..Len(gui.chan) :
            /\ ReceivedInOrder(gui.chan[w])
            /\ IF gui.chan[w].bend.tag = "Some"
               THEN /\ Len(Answers(gui.chan[w])) = Len(Loads(gui.chan[w]))
                    /\ \A j \in 1..Len(Loads(gui.chan[w])) :
                          \/ /\ Answers(gui.chan[w])[j].kind = "Page"
                             /\ Answers(gui.chan[w])[j].topic = Loads(gui.chan[w])[j].name
                          \/ Answers(gui.chan[w])[j].kind = "Error"
               ELSE /\ Len(gui.chan[w].emitted) = Len(gui.chan[w].received)
                    /\ \A j \in 1..Len(gui.chan[w].emitted) :
                          gui.chan[w].emitted[j].kind = "Error"

\* The initial worker answered a command with an Error; the worker of the
\* opened bag then received a LoadTopic for /b whose read failed, and sent
\* its list of topics and one Error.
C29_Witness ==
    /\ ViewerRunning
    /\ Len(gui.chan) = 2
    /\ Len(gui.chan[1].received) = 1
    /\ Len(gui.chan[1].emitted) = 1
    /\ gui.chan[2].received = << LoadTopic("/b") >>
    /\ Len(gui.chan[2].emitted) = 2
    /\ gui.chan[2].emitted[2].kind = "Error"

\* Two LoadTopic commands were answered by two pages in the order of the
\* commands, /b before /a.
TwoPagesInOrder ==
    /\ ViewerRunning
    /\ Len(gui.chan) = 2
    /\ gui.chan[2].sent = << LoadTopic("/b"), LoadTopic("/a") >>
    /\ Len(gui.chan[2].emitted) = 3
    /\ gui.chan[2].emitted[2].kind = "Page" /\ gui.chan[2].emitted[2].topic = "/b"
    /\ gui.chan[2].emitted[3].kind = "Page" /\ gui.chan[2].emitted[3].topic = "/a"

\* The channels of worker w are no longer the viewer's.
Replaced(w) == ViewerRunning /\ w <= Len(gui.chan) /\ w # gui.tx

Exited(w) == ViewerRunning /\ w <= Len(gui.chan) /\ gui.chan[w].at = "exited"

\* A successful open gives the viewer a new sender and receiver, both of the
\* new worker; no step applies an event of a worker whose channels are not
\* the viewer's, or leaves one where the viewer would receive it.
OnlyCurrentWorkerApplied ==
    (ViewerRunning /\ gui'.phase = "running") =>
        /\ gui'.backend # gui.backend =>
              (gui'.backend.tag = "Some" =>
                  /\ gui'.tx = Len(gui'.chan) /\ gui'.rx = gui'.tx
                  /\ gui'.tx # gui.tx)
        /\ \A w \in 1..Len(gui.chan) :
              w # gui.rx =>
                  /\ gui'.chan[w].applied = gui.chan[w].applied
                  /\ gui'.chan[w].events = << >>

\* C30: after a bag is opened successfully the viewer replaces its command
\* sender and event receiver, and the worker thread bound to the previous
\* channels eventually exits its receive loop; events still sent by the
\* previous worker are never applied to the viewer state, so at most one
\* worker can ever change what the viewer shows.
C30_OldWorkerExits ==
    /\ [][OnlyCurrentWorkerApplied]_vars
    /\ \A w \in Workers : Replaced(w) ~> Exited(w)

\* The initial worker sent an Error for a command it had been given before
\* the bag was opened; the viewer, on the channels of the new worker, never
\* applied it, and the initial worker has left its loop.
C30_Witness ==
    /\ ViewerRunning
    /\ gui.rx = 2
    /\ gui.chan[1].at = "exited"
    /\ Len(gui.chan[1].emitted) = 1
    /\ gui.chan[1].applied = 0
    /\ gui.chan[2].applied > 0

====
